---- MODULE Spec2Model ----
(***************************************************************************)
(* A model of the correlation and ranking engine of sp500-network-analysis *)
(*                                                                         *)
(*   network/correlation_network.py   CorrelationNetworkGraph              *)
(*   analysis/stock_analyzer.py       StockAnalyzer.topk_stocks,           *)
(*                                    StockAnalyzer.leastk_stocks,         *)
(*                                    StockAnalyzer.get_stock_performance  *)
(*   analysis/correlation_calculator.py   CorrelationCalculator            *)
(*   analysis/sharpe_ratio_calculator.py  SharpeRatioCalculator            *)
(*   database/connection_manager.py       ConnectionManager                *)
(*   data/asset_prices_manager.py         AssetPricesManager               *)
(*                                                                         *)
(* Ticker symbols are modelled as the numbers 1..3: the order of the       *)
(* numbers stands for the order Python gives the strings (tuples of        *)
(* (score, ticker) are compared lexicographically by heapq and sorted).    *)
(* Correlations, weights and thresholds are floats in the program; the     *)
(* model keeps them as integers that stand for twice the value             *)
(* (-2 is -1.0, 1 is 0.5, 2 is 1.0, 3 is 1.5).  Daily returns are small    *)
(* integers.                                                               *)
(***************************************************************************)
EXTENDS Integers, Sequences, FiniteSets, TLC

\* ------------------------------------------------------------------ bounds
\* most rows (trading days) of returns_df
MaxDays == 2
\* largest k_stocks passed to topk_stocks / leastk_stocks
MaxK == 3
\* longest list of periods passed to analyze_multiple_periods
MaxPeriods == 2
\* most calls of ConnectionManager methods in one behaviour
MaxCalls == 5
\* dates of stock_prices and asset_prices are 1..MaxDate, in the order of
\* their ISO strings
MaxDate == 3
\* most rows of stock_prices
MaxStockRows == 3
\* largest n passed to get_similar_stocks / get_common_similar_stocks
MaxN == 3
\* longest list of tickers passed to a graph query
MaxQueryLen == 2
\* most rows of the returns_df handed to the calculators
MaxWindow == 3

\* the ticker symbols of the model; a symbol that is not in ordered_tickers
\* is a ticker unknown to the graph
Tickers == {1, 2, 3}
\* twice the correlation values a matrix entry may take off the diagonal
CorrValues == {-2, 1, 2}
\* twice the thresholds: negative, equal to a weight, above 1.0
Thresholds == {-1, 1, 3}
\* the daily returns a cell of returns_df may hold
ReturnValues == {-1, 1}
\* twice the thresholds of the matrix queries: both signs, outside [-1, 1]
QueryThresholds == {-3, -1, 1, 3}
\* the risk-free rates passed to the Sharpe methods, in the unit of the returns
RiskFreeRates == {0, 100}
\* annualization_factor, the default of calculate_sharpe_ratios
AnnualizationFactor == 252

VARIABLES
    correlation_matrix,  \* self.correlation_matrix: [i][j] by position
    ordered_tickers,     \* self.ordered_tickers
    threshold,           \* self.threshold
    graph,               \* self.graph: source -> (target -> weight)
    call,                \* the last query made on the graph and its arguments
    ret,                 \* what that query returned, or the exception it raised
    returns_df,          \* StockAnalyzer.returns_df: columns (tickers), rows (days)
    pc,                  \* where topk_stocks / leastk_stocks stands
    rcall,               \* the ranking call under way and its arguments
    total_returns,       \* its total_returns, as (ticker, total) in column order
    idx,                 \* the position of its for loop in total_returns
    kheap,               \* its min_heap / max_heap
    rret,                \* what the ranking call returned, or the exception raised
    matrix_df,           \* the correlation_matrix argument of the matrix query under way
    ccall,               \* the last call of a calculator method and its arguments
    cret,                \* what that call returned, or the exception it raised
    hash_order,          \* the order in which this process iterates a set of tickers
    frames,              \* the local variables of each caller of a graph query
    _db_path,            \* ConnectionManager._db_path
    _connection,         \* ConnectionManager._connection: None or a connection
    connections,         \* every connection sqlite3.connect has made: path, open
    mcalls,              \* the calls of ConnectionManager methods so far, their results
    stock_prices,        \* the table stock_prices: rows (date, ticker, close)
    asset_prices,        \* the table asset_prices: whether it exists, its rows
    acall                \* the last call of update_asset_prices and what it did

gvars == <<correlation_matrix, ordered_tickers, threshold, graph, call, ret>>
rvars == <<returns_df, pc, rcall, total_returns, idx, kheap, rret>>
cvars == <<matrix_df, ccall, cret>>
tvars == <<hash_order, frames>>
dvars == <<_db_path, _connection, connections, mcalls>>
pvars == <<stock_prices, asset_prices, acall>>
xvars == <<tvars, dvars, pvars>>
vars == <<gvars, rvars, cvars, xvars>>

\* database paths: DefaultPath is the path of the class statement, and
\* sqlite3.connect raises OperationalError for a path of Unopenable (a file
\* in a directory that does not exist)
DefaultPath == 1
Paths == {1, 2, 3}
Unopenable == {3}

\* ----------------------------------------------------------------- helpers
Abs(x) == IF x < 0 THEN -x ELSE x

Range(s) == {s[i] : i \in 1..Len(s)}

\* duplicate-free sequences over S
InjSeqs(S) ==
    UNION {{s \in [1..n -> S] : \A i, j \in 1..n : i # j => s[i] # s[j]} :
           n \in 0..Cardinality(S)}

\* the orders in which the elements of the set S can be listed
Perms(S) ==
    {s \in [1..Cardinality(S) -> S] : \A i, j \in 1..Cardinality(S) : i # j => s[i] # s[j]}

\* all sequences over S of length at most n
SeqsUpTo(S, n) == UNION {[1..m -> S] : m \in 0..n}

\* position of ticker t in the sequence s (0 when absent)
IndexOf(s, t) == IF t \in Range(s) THEN CHOOSE i \in 1..Len(s) : s[i] = t ELSE 0

\* Python's comparison of two (number, ticker) tuples
TupleLt(a, b) == a[1] < b[1] \/ (a[1] = b[1] /\ a[2] < b[2])

\* ------------------------------------------------------------------- heapq
\* heapq._siftdown(heap, startpos, pos), its while loop
RECURSIVE SiftDownLoop(_, _, _, _)
SiftDownLoop(heap, startpos, pos, newitem) ==
    IF pos > startpos
    THEN LET parentpos == (pos - 1) \div 2
             parent == heap[parentpos + 1]
         IN  IF TupleLt(newitem, parent)
             THEN SiftDownLoop([heap EXCEPT ![pos + 1] = parent],
                               startpos, parentpos, newitem)
             ELSE [heap EXCEPT ![pos + 1] = newitem]
    ELSE [heap EXCEPT ![pos + 1] = newitem]

siftdown(heap, startpos, pos) == SiftDownLoop(heap, startpos, pos, heap[pos + 1])

\* heapq._siftup(heap, pos), its while loop: the hole moves down to a leaf
RECURSIVE SiftUpLoop(_, _, _)
SiftUpLoop(heap, pos, childpos) ==
    IF childpos < Len(heap)
    THEN LET rightpos == childpos + 1
             c == IF rightpos < Len(heap)
                     /\ ~TupleLt(heap[childpos + 1], heap[rightpos + 1])
                  THEN rightpos ELSE childpos
         IN  SiftUpLoop([heap EXCEPT ![pos + 1] = heap[c + 1]], c, 2 * c + 1)
    ELSE <<heap, pos>>

siftup(heap, pos) ==
    LET newitem == heap[pos + 1]
        r == SiftUpLoop(heap, pos, 2 * pos + 1)
    IN  siftdown([r[1] EXCEPT ![r[2] + 1] = newitem], pos, r[2])

\* heapq.heappush(heap, item): the heap after the push
heappush(heap, item) == siftdown(Append(heap, item), 0, Len(heap))

\* heapq.heappop(heap) on a non-empty heap: <<the item popped, the heap left>>
heappop(heap) ==
    LET lastelt == heap[Len(heap)]
        rest == SubSeq(heap, 1, Len(heap) - 1)
    IN  IF rest # <<>>
        THEN <<rest[1], siftup([rest EXCEPT ![1] = lastelt], 0)>>
        ELSE <<lastelt, rest>>

\* heapq.heappushpop(heap, item): the heap after the call
heappushpop(heap, item) ==
    IF heap # <<>> /\ TupleLt(heap[1], item)
    THEN siftup([heap EXCEPT ![1] = item], 0)
    ELSE heap

\* ------------------------------------------------- CorrelationNetworkGraph
\* _build_graph with line 23 reading abs(corr) >= self.threshold
BuildGraphInclusive(matrix, tickers, thr) ==
    [ti \in Range(tickers) |->
        LET i == IndexOf(tickers, ti)
            targets == {j \in 1..Len(tickers) : i < j /\ Abs(matrix[i][j]) >= thr}
        IN  [tj \in {tickers[j] : j \in targets} |->
                Abs(matrix[i][IndexOf(tickers, tj)])]]

\* _build_graph with line 21 reading i != j
BuildGraphBothWays(matrix, tickers, thr) ==
    [ti \in Range(tickers) |->
        LET i == IndexOf(tickers, ti)
            targets == {j \in 1..Len(tickers) : i # j /\ Abs(matrix[i][j]) > thr}
        IN  [tj \in {tickers[j] : j \in targets} |->
                Abs(matrix[i][IndexOf(tickers, tj)])]]

\* _build_graph: the adjacency dict built by the double loop over
\* enumerate(ordered_tickers)
BuildGraph(matrix, tickers, thr) ==
    [ti \in Range(tickers) |->
        LET i == IndexOf(tickers, ti)
            targets == {j \in 1..Len(tickers) : i < j /\ Abs(matrix[i][j]) > thr}
        IN  [tj \in {tickers[j] : j \in targets} |->
                Abs(matrix[i][IndexOf(tickers, tj)])]]

\* the keys of a dict of the graph in iteration (insertion) order: _build_graph
\* inserts sources and targets in the order of ordered_tickers
KeysInOrder(tickers, keys) == SelectSeq(tickers, LAMBDA x : x \in keys)

\* get_similar_stocks, lines 40-43: push the outgoing neighbours
RECURSIVE OutgoingLoop(_, _, _, _)
OutgoingLoop(g, ticker, items, st) ==
    IF items = <<>> THEN st
    ELSE LET neighbor == Head(items)
             weight == g[ticker][neighbor]
         IN  OutgoingLoop(g, ticker, Tail(items),
                IF neighbor \notin st.visited
                THEN [heap |-> heappush(st.heap, <<-weight, neighbor>>),
                      visited |-> st.visited \cup {neighbor}]
                ELSE st)

\* get_similar_stocks, lines 46-50: push the sources of incoming edges
RECURSIVE IncomingLoop(_, _, _, _)
IncomingLoop(g, ticker, sources, st) ==
    IF sources = <<>> THEN st
    ELSE LET source_ticker == Head(sources)
             neighbors == g[source_ticker]
         IN  IncomingLoop(g, ticker, Tail(sources),
                IF ticker \in DOMAIN neighbors /\ source_ticker \notin st.visited
                THEN [heap |-> heappush(st.heap, <<-neighbors[ticker], source_ticker>>),
                      visited |-> st.visited \cup {source_ticker}]
                ELSE st)

\* get_similar_stocks, lines 53-59: pop at most n entries
RECURSIVE PopLoop(_, _, _)
PopLoop(heap, similar_stocks, n) ==
    IF heap # <<>> /\ Len(similar_stocks) < n
    THEN LET p == heappop(heap)
         IN  PopLoop(p[2],
                     Append(similar_stocks,
                            [ticker |-> p[1][2], correlation_strength |-> -p[1][1]]),
                     n)
    ELSE similar_stocks

\* get_similar_stocks with the loop of line 46 starting at the second node
\* of the graph
SimilarOfSkipsFirstSource(g, tickers, ticker, n) ==
    LET st0 == [heap |-> <<>>, visited |-> {ticker}]
        st1 == OutgoingLoop(g, ticker, KeysInOrder(tickers, DOMAIN g[ticker]), st0)
        st2 == IncomingLoop(g, ticker, Tail(KeysInOrder(tickers, DOMAIN g)), st1)
    IN  PopLoop(st2.heap, <<>>, n)

\* get_similar_stocks without the loop over incoming edges (lines 46-50)
SimilarOfOutgoingOnly(g, tickers, ticker, n) ==
    LET st0 == [heap |-> <<>>, visited |-> {ticker}]
        st1 == OutgoingLoop(g, ticker, KeysInOrder(tickers, DOMAIN g[ticker]), st0)
    IN  PopLoop(st1.heap, <<>>, n)

\* get_similar_stocks, lines 35-61: the list of one ticker of the graph
SimilarOf(g, tickers, ticker, n) ==
    LET st0 == [heap |-> <<>>, visited |-> {ticker}]
        st1 == OutgoingLoop(g, ticker, KeysInOrder(tickers, DOMAIN g[ticker]), st0)
        st2 == IncomingLoop(g, ticker, KeysInOrder(tickers, DOMAIN g), st1)
    IN  PopLoop(st2.heap, <<>>, n)

\* get_similar_stocks with line 33 reading break: the loop ends at the first
\* ticker that is no node of the graph
RECURSIVE SimilarLoopBreak(_, _, _, _, _)
SimilarLoopBreak(g, tickers, rest, n, results) ==
    IF rest = <<>> THEN results
    ELSE LET ticker == Head(rest)
         IN  IF ticker \notin DOMAIN g
             THEN [t \in DOMAIN results \cup {ticker} |->
                    IF t = ticker THEN <<>> ELSE results[t]]
             ELSE SimilarLoopBreak(g, tickers, Tail(rest), n,
                    [t \in DOMAIN results \cup {ticker} |->
                        IF t = ticker THEN SimilarOf(g, tickers, ticker, n)
                        ELSE results[t]])

\* get_similar_stocks, lines 28-63: the loop over the input list, filling results
RECURSIVE SimilarLoop(_, _, _, _, _)
SimilarLoop(g, tickers, rest, n, results) ==
    IF rest = <<>> THEN results
    ELSE LET ticker == Head(rest)
             value == IF ticker \notin DOMAIN g THEN <<>>
                      ELSE SimilarOf(g, tickers, ticker, n)
         IN  SimilarLoop(g, tickers, Tail(rest), n,
                [t \in DOMAIN results \cup {ticker} |->
                    IF t = ticker THEN value ELSE results[t]])

GetSimilarStocks(g, tickers, query, n) == SimilarLoop(g, tickers, query, n, <<>>)

\* get_common_similar_stocks, lines 79-85: the candidates seeded from the first
\* ticker and intersected with the list of every later ticker whose list is
\* not empty
RECURSIVE IntersectLoop(_, _, _)
IntersectLoop(all_similar, rest, common_stocks) ==
    IF rest = <<>> THEN common_stocks
    ELSE LET ticker == Head(rest)
             ticker_similar == {all_similar[ticker][i].ticker :
                                    i \in 1..Len(all_similar[ticker])}
         IN  IntersectLoop(all_similar, Tail(rest),
                IF all_similar[ticker] # <<>>
                THEN common_stocks \cap ticker_similar
                ELSE common_stocks)

\* get_common_similar_stocks without the loop of lines 82-85: the candidates
\* are the neighbours of the first ticker
CommonStocksFirstOnly(all_similar, query) ==
    LET first_ticker == query[1]
    IN  {all_similar[first_ticker][i].ticker : i \in 1..Len(all_similar[first_ticker])}

\* get_common_similar_stocks with the seed taken from the second ticker when
\* the list of the first one is empty
CommonStocksSeedNext(all_similar, query) ==
    LET first_ticker == query[1]
    IN  IF all_similar[first_ticker] # <<>>
        THEN IntersectLoop(all_similar, Tail(query),
                {all_similar[first_ticker][i].ticker :
                    i \in 1..Len(all_similar[first_ticker])})
        ELSE IF Len(query) > 1
        THEN {all_similar[query[2]][i].ticker : i \in 1..Len(all_similar[query[2]])}
        ELSE {}

\* get_common_similar_stocks, lines 74-85
CommonStocks(all_similar, query) ==
    LET first_ticker == query[1]
    IN  IF all_similar[first_ticker] # <<>>
        THEN IntersectLoop(all_similar, Tail(query),
                {all_similar[first_ticker][i].ticker :
                    i \in 1..Len(all_similar[first_ticker])})
        ELSE {}

\* get_common_similar_stocks without the search of lines 97-100 for an edge
\* from the candidate to the input ticker
StrengthOutgoingOnly(g, ticker, stock) ==
    IF stock \in DOMAIN g[ticker] THEN g[ticker][stock] ELSE 0

\* get_common_similar_stocks, lines 93-100: the strength of one input ticker
\* (a node of the graph) towards one candidate
Strength(g, ticker, stock) ==
    IF stock \in DOMAIN g[ticker] THEN g[ticker][stock]
    ELSE IF stock \in DOMAIN g /\ ticker \in DOMAIN g[stock] THEN g[stock][ticker]
    ELSE 0

\* get_common_similar_stocks, lines 90-101: total_strength of one candidate
RECURSIVE TotalStrength(_, _, _)
TotalStrength(g, rest, stock) ==
    IF rest = <<>> THEN 0
    ELSE Strength(g, Head(rest), stock) + TotalStrength(g, Tail(rest), stock)

\* total_strength / len(tickers) is a float: kept as the fraction num / den
AvgLt(a, b) == a.num * b.den < b.num * a.den

\* sorted(..., key=avg_correlation_strength, reverse=True): Python's sort is
\* stable, also when reversed, so an entry goes after every entry whose key
\* is greater or equal
RECURSIVE SortedByAvgReverse(_)
SortedByAvgReverse(list) ==
    IF list = <<>> THEN <<>>
    ELSE LET front == SortedByAvgReverse(SubSeq(list, 1, Len(list) - 1))
             x == list[Len(list)]
             keep == {i \in 1..Len(front) :
                        ~AvgLt(front[i].avg_correlation_strength,
                               x.avg_correlation_strength)}
             k == Cardinality(keep)
         IN  SubSeq(front, 1, k) \o <<x>> \o SubSeq(front, k + 1, Len(front))

\* list[:n] for n >= 0
Slice(list, n) == SubSeq(list, 1, IF n < Len(list) THEN n ELSE Len(list))

\* get_common_similar_stocks, lines 88-107, for the candidates in the order
\* the set common_stocks is iterated
CommonWithStrength(g, query, order) ==
    [i \in 1..Len(order) |->
        [ticker |-> order[i],
         avg_correlation_strength |->
            [num |-> TotalStrength(g, query, order[i]), den |-> Len(query)]]]

\* get_common_similar_stocks: what the call ends with.  order is the order in
\* which Python iterates the set common_stocks (any order of its elements).
\* self.graph[ticker] raises KeyError for an input ticker that is no node of
\* the graph as soon as there is a candidate to compute a strength for.
GetCommonSimilarStocks(g, tickers, query, n, order) ==
    IF query = <<>> THEN [raised |-> "none", value |-> <<>>]
    ELSE IF order # <<>> /\ \E i \in 1..Len(query) : query[i] \notin DOMAIN g
    THEN [raised |-> "KeyError", value |-> <<>>]
    ELSE [raised |-> "none",
          value |-> Slice(SortedByAvgReverse(CommonWithStrength(g, query, order)), n)]

\* the candidates of a call: common_stocks of lines 74-85
CommonOf(g, tickers, query) ==
    IF query = <<>> THEN {}
    ELSE CommonStocks(GetSimilarStocks(g, tickers, query, Len(tickers)), query)

\* get_graph_info with line 114 reading len(self.graph)
GetGraphInfoCountsKeys(g, tickers, thr) ==
    [nodes |-> Len(tickers), edges |-> Cardinality(DOMAIN g), threshold |-> thr]

\* get_graph_info
GetGraphInfo(g, tickers, thr) ==
    LET keys == KeysInOrder(tickers, DOMAIN g)
        Sum[i \in 0..Len(keys)] ==
            IF i = 0 THEN 0 ELSE Sum[i - 1] + Cardinality(DOMAIN g[keys[i]])
    IN  [nodes |-> Len(tickers), edges |-> Sum[Len(keys)], threshold |-> thr]

\* ----------------------------------------------------------- graph actions
\* the matrix handed to the constructor: symmetric, 1.0 on the diagonal
Matrices(n) ==
    LET Pairs == {p \in (1..n) \X (1..n) : p[1] < p[2]}
    IN  {[i \in 1..n |-> [j \in 1..n |->
            IF i = j THEN 2 ELSE IF i < j THEN up[<<i, j>>] ELSE up[<<j, i>>]]] :
         up \in [Pairs -> CorrValues]}

NoCall == [op |-> "none", tickers |-> <<>>, n |-> 0]
NoRet == [raised |-> "none", value |-> <<>>]
NoRankCall == [op |-> "none", n_days |-> 0, k_stocks |-> 0]
NoMatrix == [built |-> FALSE, columns |-> <<>>, values |-> <<>>]
NoCalcCall == [op |-> "none", n_days |-> 0, ticker |-> 0, k |-> 0,
               threshold |-> 0, risk_free_rate |-> 0, periods |-> <<>>]

\* no concurrent callers
NoCallers == hash_order = <<>> /\ frames = <<>>

\* ConnectionManager as the class statement leaves it, never called
NoDatabase ==
    /\ _db_path = DefaultPath
    /\ _connection = 0
    /\ connections = <<>>
    /\ mcalls = <<>>

\* no AssetPricesManager
NoUpdateCall ==
    [op |-> "none", target_date |-> 0, raised |-> "none",
     before |-> [exists |-> FALSE, rows |-> <<>>],
     earlier |-> [op |-> "none", target_date |-> 0, rows |-> 0]]
NoPrices ==
    /\ stock_prices = {}
    /\ asset_prices = [exists |-> FALSE, rows |-> <<>>]
    /\ acall = NoUpdateCall

\* CorrelationNetworkGraph.__init__
InitGraph ==
    /\ ordered_tickers \in InjSeqs(Tickers)
    /\ correlation_matrix \in Matrices(Len(ordered_tickers))
    /\ threshold \in Thresholds
    /\ graph = BuildGraph(correlation_matrix, ordered_tickers, threshold)
    /\ call = NoCall
    /\ ret = NoRet
    /\ returns_df = [columns |-> <<>>, rows |-> <<>>]
    /\ pc = "idle"
    /\ rcall = NoRankCall
    /\ total_returns = <<>>
    /\ idx = 0
    /\ kheap = <<>>
    /\ rret = NoRet
    /\ matrix_df = NoMatrix
    /\ ccall = NoCalcCall
    /\ cret = NoRet
    /\ NoCallers
    /\ NoDatabase
    /\ NoPrices

GetSimilarStocksCall ==
    /\ call.op = "none"
    /\ \E query \in SeqsUpTo(Tickers, MaxQueryLen), n \in 0..MaxN :
        /\ call' = [op |-> "get_similar_stocks", tickers |-> query, n |-> n]
        /\ ret' = [raised |-> "none",
                   value |-> GetSimilarStocks(graph, ordered_tickers, query, n)]
        /\ UNCHANGED <<correlation_matrix, ordered_tickers, threshold, graph, rvars, cvars, xvars>>

GetCommonSimilarStocksCall ==
    /\ call.op = "none"
    /\ \E query \in SeqsUpTo(Tickers, MaxQueryLen), n \in 0..MaxN :
        LET common_stocks == CommonOf(graph, ordered_tickers, query)
        IN  \E order \in Perms(common_stocks) :
                /\ call' = [op |-> "get_common_similar_stocks",
                            tickers |-> query, n |-> n]
                /\ ret' = GetCommonSimilarStocks(graph, ordered_tickers, query, n, order)
                /\ UNCHANGED <<correlation_matrix, ordered_tickers, threshold, graph, rvars, cvars, xvars>>

GetGraphInfoCall ==
    /\ call.op = "none"
    /\ call' = [op |-> "get_graph_info", tickers |-> <<>>, n |-> 0]
    /\ ret' = [raised |-> "none",
               value |-> GetGraphInfo(graph, ordered_tickers, threshold)]
    /\ UNCHANGED <<correlation_matrix, ordered_tickers, threshold, graph, rvars, cvars, xvars>>

\* the caller takes the result (or catches the exception); the engine is
\* synchronous, so the next query starts only then
GraphReturn ==
    /\ call.op # "none"
    /\ call' = NoCall
    /\ ret' = NoRet
    /\ UNCHANGED <<correlation_matrix, ordered_tickers, threshold, graph, rvars, cvars, xvars>>

NextGraph ==
    \/ GetCommonSimilarStocksCall
    \/ GetSimilarStocksCall
    \/ GetGraphInfoCall
    \/ GraphReturn

SpecGraph == InitGraph /\ [][NextGraph]_vars

\* ----------------------------------------------------------- StockAnalyzer
\* returns_df.head(n_days) in the place of tail: the first n_days rows
HeadRows(rows, n_days) == SubSeq(rows, 1, n_days)

\* returns_df.tail(n_days): the last n_days rows
TailRows(rows, n_days) == SubSeq(rows, Len(rows) - n_days + 1, Len(rows))

\* the sum of column c over the given rows
RECURSIVE ColumnSum(_, _)
ColumnSum(rows, c) ==
    IF rows = <<>> THEN 0 ELSE Head(rows)[c] + ColumnSum(Tail(rows), c)

\* recent_returns.sum(): one (ticker, total) per column, in column order
TotalReturns(df, n_days) ==
    [c \in 1..Len(df.columns) |->
        <<df.columns[c], ColumnSum(TailRows(df.rows, n_days), c)>>]

\* Python's None beside a float result
None == [is_none |-> TRUE, total |-> 0]

\* get_stock_performance: the window check, None for a ticker that is no
\* column, else the sum of the ticker's last n_days returns (the price
\* looked up at line 192 is only logged)
GetStockPerformance(df, ticker, n_days) ==
    IF n_days > Len(df.rows)
    THEN [raised |-> "ValueError", value |-> None]
    ELSE IF ticker \notin Range(df.columns)
    THEN [raised |-> "none", value |-> None]
    ELSE [raised |-> "none",
          value |-> [is_none |-> FALSE,
                     total |-> ColumnSum(TailRows(df.rows, n_days),
                                         IndexOf(df.columns, ticker))]]

\* analyze_multiple_periods, lines 228-233, without the test of line 229
AnalyzePeriodUnguarded(df, ticker, period) == GetStockPerformance(df, ticker, period)

\* analyze_multiple_periods, lines 228-233: what one period gives
AnalyzePeriod(df, ticker, period) ==
    IF period <= Len(df.rows)
    THEN GetStockPerformance(df, ticker, period)
    ELSE [raised |-> "none", value |-> None]

\* analyze_multiple_periods, lines 214-236: results is a dict, a function
\* of the periods met so far
RECURSIVE AnalyzeLoop(_, _, _, _)
AnalyzeLoop(df, ticker, periods, results) ==
    IF periods = <<>> THEN [raised |-> "none", value |-> results]
    ELSE LET one == AnalyzePeriod(df, ticker, Head(periods))
         IN  IF one.raised # "none"
             THEN [raised |-> one.raised, value |-> <<>>]
             ELSE AnalyzeLoop(df, ticker, Tail(periods),
                              [p \in (DOMAIN results) \cup {Head(periods)} |->
                                  IF p = Head(periods) THEN one.value
                                  ELSE results[p]])

AnalyzeMultiplePeriods(df, ticker, periods) == AnalyzeLoop(df, ticker, periods, <<>>)

\* topk_stocks with line 114 reading total_return < min_heap[0][0]
TopkStepFlipped(min_heap, k_stocks, ticker, total_return) ==
    IF Len(min_heap) < k_stocks
    THEN [raised |-> "none", heap |-> heappush(min_heap, <<total_return, ticker>>)]
    ELSE IF min_heap = <<>>
    THEN [raised |-> "IndexError", heap |-> min_heap]
    ELSE IF total_return < min_heap[1][1]
    THEN [raised |-> "none", heap |-> heappushpop(min_heap, <<total_return, ticker>>)]
    ELSE [raised |-> "none", heap |-> min_heap]

\* topk_stocks with line 110 reading len(min_heap) <= k_stocks
TopkStepOffByOne(min_heap, k_stocks, ticker, total_return) ==
    IF Len(min_heap) <= k_stocks
    THEN [raised |-> "none", heap |-> heappush(min_heap, <<total_return, ticker>>)]
    ELSE IF total_return > min_heap[1][1]
    THEN [raised |-> "none", heap |-> heappushpop(min_heap, <<total_return, ticker>>)]
    ELSE [raised |-> "none", heap |-> min_heap]

\* topk_stocks, lines 110-115: one iteration of the scan.  min_heap[0] on an
\* empty list raises IndexError.
TopkStep(min_heap, k_stocks, ticker, total_return) ==
    IF Len(min_heap) < k_stocks
    THEN [raised |-> "none", heap |-> heappush(min_heap, <<total_return, ticker>>)]
    ELSE IF min_heap = <<>>
    THEN [raised |-> "IndexError", heap |-> min_heap]
    ELSE IF total_return > min_heap[1][1]
    THEN [raised |-> "none", heap |-> heappushpop(min_heap, <<total_return, ticker>>)]
    ELSE [raised |-> "none", heap |-> min_heap]

\* leastk_stocks, lines 152-157: one iteration of the scan, on negated totals
LeastkStep(max_heap, k_stocks, ticker, total_return) ==
    IF Len(max_heap) < k_stocks
    THEN [raised |-> "none", heap |-> heappush(max_heap, <<-total_return, ticker>>)]
    ELSE IF max_heap = <<>>
    THEN [raised |-> "IndexError", heap |-> max_heap]
    ELSE IF total_return < -max_heap[1][1]
    THEN [raised |-> "none", heap |-> heappushpop(max_heap, <<-total_return, ticker>>)]
    ELSE [raised |-> "none", heap |-> max_heap]

\* list.sort() / sorted(list) of (number, ticker) tuples, ascending
RECURSIVE SortedTuples(_)
SortedTuples(list) ==
    IF list = <<>> THEN <<>>
    ELSE LET front == SortedTuples(SubSeq(list, 1, Len(list) - 1))
             x == list[Len(list)]
             k == Cardinality({i \in 1..Len(front) : ~TupleLt(x, front[i])})
         IN  SubSeq(front, 1, k) \o <<x>> \o SubSeq(front, k + 1, Len(front))

\* sorted(list, reverse=True) of (number, ticker) tuples, descending
RECURSIVE SortedTuplesReverse(_)
SortedTuplesReverse(list) ==
    IF list = <<>> THEN <<>>
    ELSE LET front == SortedTuplesReverse(SubSeq(list, 1, Len(list) - 1))
             x == list[Len(list)]
             k == Cardinality({i \in 1..Len(front) : ~TupleLt(front[i], x)})
         IN  SubSeq(front, 1, k) \o <<x>> \o SubSeq(front, k + 1, Len(front))

\* topk_stocks with line 118 reading
\* sorted(min_heap, key=lambda x: (-x[0], x[1])): equal scores in ascending
\* ticker order
TopkResultTickerAscending(min_heap) ==
    LET up == SortedTuples([i \in 1..Len(min_heap) |->
                                <<-min_heap[i][1], min_heap[i][2]>>])
    IN  [i \in 1..Len(up) |-> <<-up[i][1], up[i][2]>>]

\* topk_stocks, line 118
TopkResult(min_heap) == SortedTuplesReverse(min_heap)

\* leastk_stocks with line 160 keeping the negated value
LeastkResultNegated(max_heap) ==
    SortedTuples([i \in 1..Len(max_heap) |-> <<max_heap[i][1], max_heap[i][2]>>])

\* leastk_stocks, lines 160-161: the sign restored, then sorted ascending
LeastkResult(max_heap) ==
    SortedTuples([i \in 1..Len(max_heap) |-> <<-max_heap[i][1], max_heap[i][2]>>])

\* --------------------------------------------------------- ranking actions
\* StockAnalyzer.__init__ with its returns_df: at least one row, a value in
\* every cell, no two columns of the same ticker
InitRank ==
    /\ \E columns \in InjSeqs(Tickers), days \in 1..MaxDays :
        \E rows \in [1..days -> [1..Len(columns) -> ReturnValues]] :
            returns_df = [columns |-> columns, rows |-> rows]
    /\ pc = "idle"
    /\ rcall = NoRankCall
    /\ total_returns = <<>>
    /\ idx = 0
    /\ kheap = <<>>
    /\ rret = NoRet
    /\ matrix_df = NoMatrix
    /\ ccall = NoCalcCall
    /\ cret = NoRet
    /\ NoCallers
    /\ NoDatabase
    /\ NoPrices
    /\ ordered_tickers = <<>>
    /\ correlation_matrix = <<>>
    /\ threshold = 1
    /\ graph = <<>>
    /\ call = NoCall
    /\ ret = NoRet

\* topk_stocks / leastk_stocks, lines 97-107: the window check, the totals and
\* the empty heap
RankEnter(op, n_days, k_stocks) ==
    /\ pc = "idle"
    /\ ccall.op = "none"
    /\ rcall' = [op |-> op, n_days |-> n_days, k_stocks |-> k_stocks]
    /\ IF n_days > Len(returns_df.rows)
       THEN /\ pc' = "done"
            /\ rret' = [raised |-> "ValueError", value |-> <<>>]
            /\ UNCHANGED <<total_returns, idx>>
       ELSE /\ pc' = "scan"
            /\ total_returns' = TotalReturns(returns_df, n_days)
            /\ idx' = 1
            /\ rret' = NoRet
    /\ kheap' = <<>>
    /\ UNCHANGED <<returns_df, gvars, cvars, xvars>>

TopkStocksCall ==
    \E n_days \in 0..(MaxDays + 1), k_stocks \in 0..MaxK :
        RankEnter("topk_stocks", n_days, k_stocks)

LeastkStocksCall ==
    \E n_days \in 0..(MaxDays + 1), k_stocks \in 0..MaxK :
        RankEnter("leastk_stocks", n_days, k_stocks)

\* one iteration of the for loop over total_returns.items()
ScanStep(step) ==
    /\ pc = "scan"
    /\ idx <= Len(total_returns)
    /\ IF step.raised = "none"
       THEN /\ kheap' = step.heap
            /\ idx' = idx + 1
            /\ UNCHANGED <<pc, rret>>
       ELSE /\ pc' = "done"
            /\ rret' = [raised |-> step.raised, value |-> <<>>]
            /\ UNCHANGED <<kheap, idx>>
    /\ UNCHANGED <<returns_df, rcall, total_returns, gvars, cvars, xvars>>

TopkScan ==
    /\ rcall.op = "topk_stocks"
    /\ pc = "scan" /\ idx <= Len(total_returns)
    /\ ScanStep(TopkStep(kheap, rcall.k_stocks,
                         total_returns[idx][1], total_returns[idx][2]))

LeastkScan ==
    /\ rcall.op = "leastk_stocks"
    /\ pc = "scan" /\ idx <= Len(total_returns)
    /\ ScanStep(LeastkStep(kheap, rcall.k_stocks,
                           total_returns[idx][1], total_returns[idx][2]))

\* the loop is over: the heap is sorted and returned
RankFinish(value) ==
    /\ pc = "scan"
    /\ idx > Len(total_returns)
    /\ pc' = "done"
    /\ rret' = [raised |-> "none", value |-> value]
    /\ UNCHANGED <<returns_df, rcall, total_returns, idx, kheap, gvars, cvars, xvars>>

TopkFinish == rcall.op = "topk_stocks" /\ RankFinish(TopkResult(kheap))

LeastkFinish == rcall.op = "leastk_stocks" /\ RankFinish(LeastkResult(kheap))

\* the caller takes the result (or catches the exception)
RankReturn ==
    /\ pc = "done"
    /\ pc' = "idle"
    /\ rcall' = NoRankCall
    /\ total_returns' = <<>>
    /\ idx' = 0
    /\ kheap' = <<>>
    /\ rret' = NoRet
    /\ UNCHANGED <<returns_df, gvars, cvars, xvars>>

NextRank ==
    \/ TopkStocksCall
    \/ LeastkStocksCall
    \/ TopkScan
    \/ LeastkScan
    \/ TopkFinish
    \/ LeastkFinish
    \/ RankReturn

SpecRank == InitRank /\ [][NextRank]_vars

\* --------------------------------------------------- CorrelationCalculator
\* A correlation is a float in the program.  The model keeps the exact value
\* of Pearson's r as the fraction num / den = sign(r) * r * r, which orders
\* as r does, is 1 exactly when r is 1.0, and is NaN when pandas gives NaN.
NaN == [nan |-> TRUE, num |-> 0, den |-> 1]

\* the sum over the rows of the product of the columns a and b
RECURSIVE SumProd(_, _, _)
SumProd(rows, a, b) ==
    IF rows = <<>> THEN 0
    ELSE Head(rows)[a] * Head(rows)[b] + SumProd(Tail(rows), a, b)

\* nobs times the sum of the products of the deviations of a and of b
CoMoment(rows, a, b) ==
    Len(rows) * SumProd(rows, a, b) - ColumnSum(rows, a) * ColumnSum(rows, b)

\* one cell of DataFrame.corr() (pandas nancorr, min_periods = 1): NaN with
\* no observation and when a column has no variance (the divisor is 0),
\* the diagonal included
Pearson(rows, a, b) ==
    LET sxy == CoMoment(rows, a, b)
        sxx == CoMoment(rows, a, a)
        syy == CoMoment(rows, b, b)
    IN  IF rows = <<>> \/ sxx * syy = 0 THEN NaN
        ELSE [nan |-> FALSE,
              num |-> IF sxy < 0 THEN -(sxy * sxy) ELSE sxy * sxy,
              den |-> sxx * syy]

\* last_n_returns.corr(): labelled by the columns on both axes
Corr(rows, columns) ==
    [built |-> TRUE,
     columns |-> columns,
     values |-> [i \in 1..Len(columns) |->
                    [j \in 1..Len(columns) |-> Pearson(rows, i, j)]]]

\* calculate_correlation_matrix
CalculateCorrelationMatrix(df, n_days) ==
    IF n_days > Len(df.rows)
    THEN [raised |-> "ValueError", value |-> NoMatrix]
    ELSE [raised |-> "none", value |-> Corr(TailRows(df.rows, n_days), df.columns)]

\* a < b on floats: false as soon as one side is NaN
CorrLt(a, b) == ~a.nan /\ ~b.nan /\ a.num * b.den < b.num * a.den

\* a >= t and a <= t on floats, t being twice the threshold of the call:
\* false for NaN
CorrGe(a, t) == ~a.nan /\ 4 * a.num >= (IF t < 0 THEN -(t * t) ELSE t * t) * a.den
CorrLe(a, t) == ~a.nan /\ 4 * a.num <= (IF t < 0 THEN -(t * t) ELSE t * t) * a.den

\* correlation_matrix[ticker]: the column of the ticker as (label, value)
\* pairs in index order
ColumnSeries(m, ticker) ==
    LET c == IndexOf(m.columns, ticker)
    IN  [i \in 1..Len(m.columns) |-> <<m.columns[i], m.values[i][c]>>]

\* Series.drop(ticker)
Drop(series, ticker) == SelectSeq(series, LAMBDA e : e[1] # ticker)

\* Series.dropna() and the entries it drops
DropNa(series) == SelectSeq(series, LAMBDA e : ~e[2].nan)
NanOnly(series) == SelectSeq(series, LAMBDA e : e[2].nan)

\* the series in the order of the positions p
Reorder(series, p) == [i \in 1..Len(series) |-> series[p[i]]]

\* Series.sort_values(ascending=...), NaN last: the default kind is
\* quicksort, which is not stable, so every order of the entries that is
\* sorted by value is a possible result
SortValues(series, ascending) ==
    {Reorder(series, p) : p \in
        {q \in Perms(1..Len(series)) :
            \A i, j \in 1..Len(series) : i < j =>
                LET x == series[q[i]][2]
                    y == series[q[j]][2]
                IN  /\ x.nan => y.nan
                    /\ IF ascending THEN ~CorrLt(y, x) ELSE ~CorrLt(x, y)}}

\* argsort(kind="mergesort") of a NaN-free series: stable, equal values stay
\* in index order
RECURSIVE StableSort(_, _)
StableSort(series, ascending) ==
    IF series = <<>> THEN <<>>
    ELSE LET front == StableSort(SubSeq(series, 1, Len(series) - 1), ascending)
             x == series[Len(series)]
             k == Cardinality({i \in 1..Len(front) :
                    IF ascending THEN ~CorrLt(x[2], front[i][2])
                    ELSE ~CorrLt(front[i][2], x[2])})
         IN  SubSeq(front, 1, k) \o <<x>> \o SubSeq(front, k + 1, Len(front))

\* Series.nlargest(n) / Series.nsmallest(n) with keep="first": the lists the
\* call can return.  n <= 0 gives the empty series; n >= len(series) sorts
\* with sort_values; otherwise the n first of the stable order.  Entries
\* whose value is NaN follow the others while there is room (pandas >= 1.3)
\* or are left out (older pandas): the version is not pinned by the source.
SelectN(series, n, ascending) ==
    IF n <= 0 THEN {<<>>}
    ELSE IF n >= Len(series)
    THEN {Slice(r, n) : r \in SortValues(series, ascending)}
            \cup {Slice(r, n) : r \in SortValues(DropNa(series), ascending)}
    ELSE {Slice(StableSort(DropNa(series), ascending) \o NanOnly(series), n),
          Slice(StableSort(DropNa(series), ascending), n)}

\* get_topk_similar_stocks: the results the call can end with
GetTopkSimilarStocks(m, ticker, k) ==
    IF ticker \notin Range(m.columns)
    THEN {[raised |-> "ValueError", value |-> <<>>]}
    ELSE {[raised |-> "none", value |-> r] :
            r \in SelectN(Drop(ColumnSeries(m, ticker), ticker), k, FALSE)}

\* get_leastk_similar_stocks
GetLeastkSimilarStocks(m, ticker, k) ==
    IF ticker \notin Range(m.columns)
    THEN {[raised |-> "ValueError", value |-> <<>>]}
    ELSE {[raised |-> "none", value |-> r] :
            r \in SelectN(Drop(ColumnSeries(m, ticker), ticker), k, TRUE)}

\* a > t on floats, t being twice the threshold of the call
CorrGt(a, t) == ~a.nan /\ 4 * a.num > (IF t < 0 THEN -(t * t) ELSE t * t) * a.den

\* get_similar_stocks_threshold with line 112 reading correlations > threshold
GetSimilarStocksThresholdStrict(m, ticker, thr) ==
    IF ticker \notin Range(m.columns)
    THEN {[raised |-> "ValueError", value |-> <<>>]}
    ELSE LET correlations == Drop(ColumnSeries(m, ticker), ticker)
         IN  {[raised |-> "none", value |-> r] :
                r \in SortValues(SelectSeq(correlations,
                                           LAMBDA e : CorrGt(e[2], thr)), FALSE)}

\* get_similar_stocks_threshold
GetSimilarStocksThreshold(m, ticker, thr) ==
    IF ticker \notin Range(m.columns)
    THEN {[raised |-> "ValueError", value |-> <<>>]}
    ELSE LET correlations == Drop(ColumnSeries(m, ticker), ticker)
         IN  {[raised |-> "none", value |-> r] :
                r \in SortValues(SelectSeq(correlations,
                                           LAMBDA e : CorrGe(e[2], thr)), FALSE)}

\* get_dissimilar_stocks_threshold without the check of lines 129-130: an
\* unknown ticker gets the empty list
GetDissimilarStocksThresholdLenient(m, ticker, thr) ==
    LET correlations == IF ticker \notin Range(m.columns) THEN <<>>
                        ELSE Drop(ColumnSeries(m, ticker), ticker)
    IN  {[raised |-> "none", value |-> r] :
            r \in SortValues(SelectSeq(correlations,
                                       LAMBDA e : CorrLe(e[2], thr)), TRUE)}

\* get_dissimilar_stocks_threshold
GetDissimilarStocksThreshold(m, ticker, thr) ==
    IF ticker \notin Range(m.columns)
    THEN {[raised |-> "ValueError", value |-> <<>>]}
    ELSE LET correlations == Drop(ColumnSeries(m, ticker), ticker)
         IN  {[raised |-> "none", value |-> r] :
                r \in SortValues(SelectSeq(correlations,
                                           LAMBDA e : CorrLe(e[2], thr)), TRUE)}

\* ------------------------------------------------------ calculator actions
\* the column orders of the tables of the calculators: the tickers of a
\* subset in ascending or in descending order (the calculators compare
\* tickers for equality only, and StockAnalyzer's use of their order is
\* covered by SpecRank)
ColumnOrders ==
    {s \in InjSeqs(Tickers) :
        \/ \A i, j \in 1..Len(s) : i < j => s[i] < s[j]
        \/ \A i, j \in 1..Len(s) : i < j => s[i] > s[j]}

\* CorrelationCalculator.__init__ and StockAnalyzer.__init__ with the same
\* returns_df: at least one row, a value in every cell, no two columns of
\* the same ticker
InitCorr ==
    /\ \E columns \in ColumnOrders, days \in 1..MaxWindow :
        \E rows \in [1..days -> [1..Len(columns) -> ReturnValues]] :
            returns_df = [columns |-> columns, rows |-> rows]
    /\ matrix_df = NoMatrix
    /\ ccall = NoCalcCall
    /\ cret = NoRet
    /\ NoCallers
    /\ NoDatabase
    /\ NoPrices
    /\ pc = "idle"
    /\ rcall = NoRankCall
    /\ total_returns = <<>>
    /\ idx = 0
    /\ kheap = <<>>
    /\ rret = NoRet
    /\ ordered_tickers = <<>>
    /\ correlation_matrix = <<>>
    /\ threshold = 1
    /\ graph = <<>>
    /\ call = NoCall
    /\ ret = NoRet

\* calculate_correlation_matrix(n_days), for every window up to one row
\* more than the table holds
CalculateCorrelationMatrixCall ==
    /\ pc = "idle"
    /\ ccall.op = "none"
    /\ \E n_days \in 0..(Len(returns_df.rows) + 1) :
        /\ ccall' = [NoCalcCall EXCEPT !.op = "calculate_correlation_matrix",
                                       !.n_days = n_days]
        /\ cret' = CalculateCorrelationMatrix(returns_df, n_days)
    /\ UNCHANGED <<matrix_df, gvars, rvars, xvars>>

\* a query on the matrix that calculate_correlation_matrix just returned;
\* n_days keeps the window that matrix was calculated for
MatrixQuery(op, ticker, k, thr, results) ==
    /\ ccall.op = "calculate_correlation_matrix"
    /\ cret.raised = "none"
    /\ matrix_df' = cret.value
    /\ ccall' = [ccall EXCEPT !.op = op, !.ticker = ticker, !.k = k,
                              !.threshold = thr]
    /\ cret' \in results
    /\ UNCHANGED <<gvars, rvars, xvars>>

GetTopkSimilarStocksCall ==
    /\ ccall.op = "calculate_correlation_matrix"
    /\ \E ticker \in Tickers, k \in 0..MaxK :
        MatrixQuery("get_topk_similar_stocks", ticker, k, 0,
                    GetTopkSimilarStocks(cret.value, ticker, k))

GetLeastkSimilarStocksCall ==
    /\ ccall.op = "calculate_correlation_matrix"
    /\ \E ticker \in Tickers, k \in 0..MaxK :
        MatrixQuery("get_leastk_similar_stocks", ticker, k, 0,
                    GetLeastkSimilarStocks(cret.value, ticker, k))

GetSimilarStocksThresholdCall ==
    /\ ccall.op = "calculate_correlation_matrix"
    /\ \E ticker \in Tickers, thr \in QueryThresholds :
        MatrixQuery("get_similar_stocks_threshold", ticker, 0, thr,
                    GetSimilarStocksThreshold(cret.value, ticker, thr))

GetDissimilarStocksThresholdCall ==
    /\ ccall.op = "calculate_correlation_matrix"
    /\ \E ticker \in Tickers, thr \in QueryThresholds :
        MatrixQuery("get_dissimilar_stocks_threshold", ticker, 0, thr,
                    GetDissimilarStocksThreshold(cret.value, ticker, thr))

\* StockAnalyzer.get_stock_performance(ticker, n_days)
GetStockPerformanceCall ==
    /\ pc = "idle"
    /\ ccall.op = "none"
    /\ \E ticker \in Tickers, n_days \in 0..(Len(returns_df.rows) + 1) :
        /\ ccall' = [NoCalcCall EXCEPT !.op = "get_stock_performance",
                                       !.ticker = ticker, !.n_days = n_days]
        /\ cret' = GetStockPerformance(returns_df, ticker, n_days)
    /\ UNCHANGED <<matrix_df, gvars, rvars, xvars>>

\* the caller takes the result (or catches the exception)
CalcReturn ==
    /\ ccall.op # "none"
    /\ ccall' = NoCalcCall
    /\ cret' = NoRet
    /\ matrix_df' = NoMatrix
    /\ UNCHANGED <<gvars, rvars, xvars>>

NextCorr ==
    \/ CalculateCorrelationMatrixCall
    \/ GetTopkSimilarStocksCall
    \/ GetLeastkSimilarStocksCall
    \/ GetSimilarStocksThresholdCall
    \/ GetDissimilarStocksThresholdCall
    \/ GetStockPerformanceCall
    \/ CalcReturn
    \/ NextRank

SpecCorr == InitCorr /\ [][NextCorr]_vars

\* ------------------------------------------------------------ graph claims
\* the number of directed edges stored in g
EdgeCount(g) ==
    Cardinality({e \in (DOMAIN g) \X (DOMAIN g) : e[2] \in DOMAIN g[e[1]]})

\* the tickers joined to t by an edge of g, in either direction
NeighborsOf(g, t) ==
    IF t \notin DOMAIN g THEN {}
    ELSE {x \in DOMAIN g : x \in DOMAIN g[t] \/ t \in DOMAIN g[x]}

\* the weight of the edge of g between t and its neighbour x
EdgeWeight(g, t, x) == IF x \in DOMAIN g[t] THEN g[t][x] ELSE g[x][t]

\* the tickers reached from the set S by one or more edges of g
RECURSIVE ReachedFrom(_, _, _)
ReachedFrom(g, S, steps) ==
    LET next == UNION {DOMAIN g[s] : s \in S}
    IN  IF steps = 0 THEN {} ELSE next \cup ReachedFrom(g, next, steps - 1)

\* C1: the graph holds the edge ordered_tickers[i] -> ordered_tickers[j]
\* exactly when i < j and |correlation_matrix[i][j]| > threshold (strictly),
\* with that absolute value as its weight; its nodes are the ordered tickers
\* and it holds no other edge.
C1_EdgesExactlyAboveThreshold ==
    /\ DOMAIN graph = Range(ordered_tickers)
    /\ \A s \in DOMAIN graph : DOMAIN graph[s] \subseteq Range(ordered_tickers)
    /\ \A i, j \in 1..Len(ordered_tickers) :
        LET src == ordered_tickers[i]
            dst == ordered_tickers[j]
        IN  /\ (dst \in DOMAIN graph[src]) <=>
                    (i < j /\ Abs(correlation_matrix[i][j]) > threshold)
            /\ dst \in DOMAIN graph[src] =>
                    graph[src][dst] = Abs(correlation_matrix[i][j])

\* a pair at the threshold exactly (no edge) beside a negative correlation
\* above it (an edge with the absolute value)
C1_Witness ==
    /\ \E i, j \in 1..Len(ordered_tickers) :
        /\ i < j
        /\ Abs(correlation_matrix[i][j]) = threshold
        /\ ordered_tickers[j] \notin DOMAIN graph[ordered_tickers[i]]
    /\ \E i, j \in 1..Len(ordered_tickers) :
        /\ i < j
        /\ correlation_matrix[i][j] < 0
        /\ ordered_tickers[j] \in DOMAIN graph[ordered_tickers[i]]
        /\ graph[ordered_tickers[i]][ordered_tickers[j]] = -correlation_matrix[i][j]

\* C2: for any threshold the graph has no self-loop, no edge whose source
\* stands at or after its target in ordered_tickers, and no directed cycle,
\* after construction and after any sequence of queries.
C2_ForwardEdgesOnlyAcyclic ==
    \A s \in DOMAIN graph :
        /\ s \notin DOMAIN graph[s]
        /\ \A d \in DOMAIN graph[s] :
                IndexOf(ordered_tickers, s) < IndexOf(ordered_tickers, d)
        /\ s \notin ReachedFrom(graph, {s}, Cardinality(DOMAIN graph))

\* a negative threshold, every pair joined, a query answered
C2_Witness ==
    /\ threshold < 0
    /\ Len(ordered_tickers) = 3
    /\ EdgeCount(graph) = 3
    /\ call.op = "get_common_similar_stocks"
    /\ ret.value # <<>>

\* C3, as claimed: every ticker get_common_similar_stocks returns is a
\* neighbour of every input ticker, and the result is empty as soon as one
\* input ticker has no neighbour.
C3_CommonIsNeighborOfEveryInput ==
    (call.op = "get_common_similar_stocks" /\ ret.raised = "none") =>
        /\ \A i \in 1..Len(ret.value), k \in 1..Len(call.tickers) :
                ret.value[i].ticker \in NeighborsOf(graph, call.tickers[k])
        /\ (\E k \in 1..Len(call.tickers) :
                NeighborsOf(graph, call.tickers[k]) = {}) => ret.value = <<>>

\* C4, as claimed: get_common_similar_stocks given a list that holds a ticker
\* absent from the graph, at any position, completes without raising.
C4_CommonLenientOnUnknownTicker ==
    (/\ call.op = "get_common_similar_stocks"
     /\ \E k \in 1..Len(call.tickers) : call.tickers[k] \notin DOMAIN graph) =>
        ret.raised = "none"

\* the smaller of two numbers
Min(a, b) == IF a < b THEN a ELSE b

\* the tickers of a list returned by get_similar_stocks
Listed(list) == {list[i].ticker : i \in 1..Len(list)}

\* C9: for an input ticker t of the graph, get_similar_stocks returns
\* min(n, |N(t)|) entries, each a distinct neighbour of t (by an outgoing or
\* an incoming edge) tagged with the weight of that edge, never t itself, in
\* descending order of weight, and no neighbour left out is heavier than one
\* returned.
C9_SimilarAreTopNeighbors ==
    call.op = "get_similar_stocks" =>
        \A t \in DOMAIN ret.value \cap DOMAIN graph :
            LET list == ret.value[t]
                N == NeighborsOf(graph, t)
            IN  /\ Len(list) = Min(call.n, Cardinality(N))
                /\ Listed(list) \subseteq N
                /\ t \notin Listed(list)
                /\ Cardinality(Listed(list)) = Len(list)
                /\ \A i \in 1..Len(list) :
                    list[i].correlation_strength = EdgeWeight(graph, t, list[i].ticker)
                /\ \A i, j \in 1..Len(list) :
                    i < j => list[i].correlation_strength >= list[j].correlation_strength
                /\ \A x \in N \ Listed(list), i \in 1..Len(list) :
                    EdgeWeight(graph, t, x) <= list[i].correlation_strength

\* a ticker with a lighter outgoing and a heavier incoming neighbour, asked
\* for one: the incoming one is returned
C9_Witness ==
    /\ call.op = "get_similar_stocks"
    /\ call.n = 1
    /\ \E t \in DOMAIN ret.value \cap DOMAIN graph :
        /\ Cardinality(NeighborsOf(graph, t)) = 2
        /\ Len(ret.value[t]) = 1
        /\ t \in DOMAIN graph[ret.value[t][1].ticker]
        /\ \E x \in DOMAIN graph[t] :
                graph[t][x] < ret.value[t][1].correlation_strength

\* the input list without the tickers that are no node of the graph
KnownOnly(query) == SelectSeq(query, LAMBDA t : t \in DOMAIN graph)

\* C10: get_similar_stocks does not raise; a ticker that is no node of the
\* graph maps to the empty list; the lists of the other tickers are those of
\* the same call without the unknown tickers; the result has one key per
\* distinct input ticker.
C10_UnknownTickerIsLenient ==
    call.op = "get_similar_stocks" =>
        /\ ret.raised = "none"
        /\ DOMAIN ret.value = Range(call.tickers)
        /\ \A t \in Range(call.tickers) \ DOMAIN graph : ret.value[t] = <<>>
        /\ \A t \in Range(call.tickers) \cap DOMAIN graph :
            ret.value[t] =
                GetSimilarStocks(graph, ordered_tickers,
                                 KnownOnly(call.tickers), call.n)[t]

\* an unknown ticker ahead of a ticker that has neighbours
C10_Witness ==
    /\ call.op = "get_similar_stocks"
    /\ Len(call.tickers) = 2
    /\ call.tickers[1] \notin DOMAIN graph
    /\ call.tickers[2] \in DOMAIN graph
    /\ ret.value[call.tickers[1]] = <<>>
    /\ ret.value[call.tickers[2]] # <<>>

\* C11: get_common_similar_stocks([]) returns [], and a list whose first
\* ticker has no neighbour (no outgoing and no incoming edge) returns []
\* whatever the other tickers and n are.
C11_EmptyWhenFirstHasNoNeighbor ==
    (/\ call.op = "get_common_similar_stocks"
     /\ \/ call.tickers = <<>>
        \/ NeighborsOf(graph, call.tickers[1]) = {}) =>
        (ret.raised = "none" /\ ret.value = <<>>)

\* a first ticker without neighbours ahead of a ticker that has some, n >= 1
C11_Witness ==
    /\ call.op = "get_common_similar_stocks"
    /\ Len(call.tickers) = 2
    /\ call.n >= 1
    /\ call.tickers[1] \in DOMAIN graph
    /\ NeighborsOf(graph, call.tickers[1]) = {}
    /\ NeighborsOf(graph, call.tickers[2]) # {}
    /\ ret.raised = "none"
    /\ ret.value = <<>>

\* the sum, over the input tickers, of the weight of the edge between the
\* ticker and the candidate c in either direction, 0 when there is none
RECURSIVE WeightSum(_, _)
WeightSum(query, c) ==
    IF query = <<>> THEN 0
    ELSE (IF c \in NeighborsOf(graph, Head(query))
          THEN EdgeWeight(graph, Head(query), c) ELSE 0)
         + WeightSum(Tail(query), c)

\* C12: every entry get_common_similar_stocks returns carries the sum of the
\* edge weights between its candidate and the input tickers (either
\* direction, 0 for a missing edge) divided by the number of input tickers;
\* the list is sorted by that average descending and holds the candidates
\* that survived, at most n of them, none twice and none heavier left out.
C12_AverageStrengthSortedTopN ==
    (call.op = "get_common_similar_stocks" /\ ret.raised = "none") =>
        LET list == ret.value
            survivors == CommonOf(graph, ordered_tickers, call.tickers)
            Avg(c) == [num |-> WeightSum(call.tickers, c), den |-> Len(call.tickers)]
        IN  /\ Len(list) = Min(call.n, Cardinality(survivors))
            /\ \A i \in 1..Len(list) :
                /\ list[i].ticker \in survivors
                /\ list[i].avg_correlation_strength = Avg(list[i].ticker)
            /\ \A i, j \in 1..Len(list) :
                i < j => /\ list[i].ticker # list[j].ticker
                         /\ ~AvgLt(list[i].avg_correlation_strength,
                                   list[j].avg_correlation_strength)
            /\ \A c \in survivors \ Listed(list), i \in 1..Len(list) :
                ~AvgLt(list[i].avg_correlation_strength, Avg(c))

\* two input tickers and two candidates, the lighter one cut off by n = 1,
\* the one returned reached by an edge that ends at an input ticker
C12_Witness ==
    /\ call.op = "get_common_similar_stocks"
    /\ ret.raised = "none"
    /\ Len(call.tickers) = 2
    /\ call.n = 1
    /\ Cardinality(CommonOf(graph, ordered_tickers, call.tickers)) = 2
    /\ Len(ret.value) = 1
    /\ \E c \in CommonOf(graph, ordered_tickers, call.tickers) :
            AvgLt([num |-> WeightSum(call.tickers, c), den |-> 2],
                  ret.value[1].avg_correlation_strength)
    /\ call.tickers[1] \in DOMAIN graph[ret.value[1].ticker]

\* the number of pairs of positions i < j whose correlation is above the
\* threshold in absolute value
CorrelatedPairs ==
    Cardinality({p \in (1..Len(ordered_tickers)) \X (1..Len(ordered_tickers)) :
                    p[1] < p[2] /\ Abs(correlation_matrix[p[1]][p[2]]) > threshold})

\* C17: get_graph_info returns nodes = len(ordered_tickers), which is also
\* the number of keys of the graph, edges = the number of directed edges the
\* graph stores, one per correlated pair, and the threshold of construction.
C17_GraphInfoCounts ==
    call.op = "get_graph_info" =>
        /\ ret.raised = "none"
        /\ ret.value.nodes = Len(ordered_tickers)
        /\ ret.value.nodes = Cardinality(DOMAIN graph)
        /\ ret.value.edges = EdgeCount(graph)
        /\ ret.value.edges = CorrelatedPairs
        /\ ret.value.threshold = threshold

\* three nodes, two of the three pairs joined
C17_Witness ==
    /\ call.op = "get_graph_info"
    /\ ret.value.nodes = 3
    /\ ret.value.edges = 2
    /\ CorrelatedPairs = 2

\* ---------------------------------------------------------- ranking claims
\* the stream of a ranking call as (score, ticker) tuples, in stream order
StreamTuples == [i \in 1..Len(total_returns) |-> <<total_returns[i][2], total_returns[i][1]>>]

\* the scores of a list of (score, ticker) tuples
Scores(list) == [i \in 1..Len(list) |-> list[i][1]]

\* a list of numbers sorted ascending
RECURSIVE NumbersAscending(_)
NumbersAscending(list) ==
    IF list = <<>> THEN <<>>
    ELSE LET front == NumbersAscending(SubSeq(list, 1, Len(list) - 1))
             x == list[Len(list)]
             k == Cardinality({i \in 1..Len(front) : front[i] <= x})
         IN  SubSeq(front, 1, k) \o <<x>> \o SubSeq(front, k + 1, Len(front))

\* a list of numbers sorted descending
NumbersDescending(list) ==
    LET up == NumbersAscending(list)
    IN  [i \in 1..Len(up) |-> up[Len(up) + 1 - i]]

\* sorted(stream, key=score, reverse=True): a stable sort, equal scores stay
\* in stream order
RECURSIVE StableByScoreDescending(_)
StableByScoreDescending(list) ==
    IF list = <<>> THEN <<>>
    ELSE LET front == StableByScoreDescending(SubSeq(list, 1, Len(list) - 1))
             x == list[Len(list)]
             k == Cardinality({i \in 1..Len(front) : front[i][1] >= x[1]})
         IN  SubSeq(front, 1, k) \o <<x>> \o SubSeq(front, k + 1, Len(front))

\* a ranking call that passed the window check has ended
RankEnded(op) ==
    /\ pc = "done"
    /\ rcall.op = op
    /\ rret.raised # "ValueError"

\* every entry of the list is an item of the stream, none twice
FromStream(list) ==
    /\ \A i \in 1..Len(list) : \E j \in 1..Len(total_returns) : list[i] = StreamTuples[j]
    /\ \A i, j \in 1..Len(list) : i # j => list[i][2] # list[j][2]

\* C5, as claimed: for k >= 1, topk_stocks returns the first k entries of the
\* whole stream sorted descending by score, equal scores included: the same
\* entries in the same order as a full sort and a slice (the tuples sorted in
\* reverse, or the stream sorted by score alone with a stable sort), here
\* for a window of at least one day
C5_TopkEqualsFullSortSlice ==
    (RankEnded("topk_stocks") /\ rcall.k_stocks >= 1 /\ rcall.n_days >= 1) =>
        /\ rret.raised = "none"
        /\ \/ rret.value = Slice(SortedTuplesReverse(StreamTuples), rcall.k_stocks)
           \/ rret.value = Slice(StableByScoreDescending(StreamTuples), rcall.k_stocks)

\* C5, amended: for k >= 1, topk_stocks returns entries of the stream whose
\* scores, in order, are the first k scores of the stream sorted descending;
\* when no two scores of the stream are equal the list is the first k
\* entries of the stream sorted descending.
C5_TopkScoresEqualFullSortSlice ==
    (RankEnded("topk_stocks") /\ rcall.k_stocks >= 1) =>
        /\ rret.raised = "none"
        /\ FromStream(rret.value)
        /\ Scores(rret.value) =
                Slice(NumbersDescending(Scores(StreamTuples)), rcall.k_stocks)
        /\ (\A i, j \in 1..Len(StreamTuples) :
                i # j => StreamTuples[i][1] # StreamTuples[j][1]) =>
                rret.value = Slice(StableByScoreDescending(StreamTuples), rcall.k_stocks)

\* three tickers, two kept, the last one of the stream having evicted the
\* smallest of the heap
C5_Witness ==
    /\ RankEnded("topk_stocks")
    /\ rcall.k_stocks = 2
    /\ Len(total_returns) = 3
    /\ Len(rret.value) = 2
    /\ \E i \in 1..2 : rret.value[i] = StreamTuples[3]
    /\ \E i \in 1..2 : StreamTuples[i][1] < StreamTuples[3][1]

\* C6, as claimed: with k_stocks = 0, topk_stocks and leastk_stocks return the
\* empty list for every stream, a non-empty one included (here for a window
\* of at least one day that the table covers).
C6_ZeroKReturnsEmpty ==
    (/\ pc = "done"
     /\ rcall.k_stocks = 0
     /\ rcall.n_days >= 1
     /\ rret.raised # "ValueError") =>
        (rret.raised = "none" /\ rret.value = <<>>)

\* the list is strictly ascending as (score, ticker) tuples
TuplesAscending(list) == \A i, j \in 1..Len(list) : i < j => TupleLt(list[i], list[j])

\* the list is strictly descending as (score, ticker) tuples
TuplesDescending(list) == \A i, j \in 1..Len(list) : i < j => TupleLt(list[j], list[i])

\* C7: with k >= N the rankers return all N items of the stream, descending
\* for topk_stocks and ascending for leastk_stocks; with N = 0 they return
\* the empty list for any k; and the heap never holds more than min(k, N)
\* items at any step of the scan.
C7_AllItemsWhenKCoversStream ==
    LET N == Len(returns_df.columns)
    IN  /\ Len(kheap) <= Min(rcall.k_stocks, N)
        /\ (pc = "done" /\ rret.raised # "ValueError" /\ rcall.k_stocks >= N) =>
            /\ rret.raised = "none"
            /\ Len(rret.value) = N
            /\ Range(rret.value) = Range(StreamTuples)
            /\ rcall.op = "topk_stocks" => TuplesDescending(rret.value)
            /\ rcall.op = "leastk_stocks" => TuplesAscending(rret.value)
        /\ (pc = "done" /\ rret.raised # "ValueError" /\ N = 0) =>
            (rret.raised = "none" /\ rret.value = <<>>)

\* three tickers of different totals, all returned ascending with k = 3
C7_Witness ==
    /\ RankEnded("leastk_stocks")
    /\ rcall.k_stocks = 3
    /\ Len(returns_df.columns) = 3
    /\ Len(rret.value) = 3
    /\ rret.value[1][1] < rret.value[2][1]
    /\ rret.value[2][1] < rret.value[3][1]

\* C8: for k >= 1, leastk_stocks returns min(k, N) entries of the stream,
\* each with the score the stream gives its ticker (the sign restored), the
\* scores being the min(k, N) smallest of the stream, in ascending order.
C8_LeastkSmallestAscending ==
    (RankEnded("leastk_stocks") /\ rcall.k_stocks >= 1) =>
        /\ rret.raised = "none"
        /\ Len(rret.value) = Min(rcall.k_stocks, Len(total_returns))
        /\ FromStream(rret.value)
        /\ Scores(rret.value) =
                Slice(NumbersAscending(Scores(StreamTuples)), rcall.k_stocks)
        /\ TuplesAscending(rret.value)

\* three tickers, two kept, the last one of the stream (a negative total)
\* having evicted the largest of the heap
C8_Witness ==
    /\ RankEnded("leastk_stocks")
    /\ rcall.k_stocks = 2
    /\ Len(total_returns) = 3
    /\ Len(rret.value) = 2
    /\ StreamTuples[3][1] < 0
    /\ \E i \in 1..2 : rret.value[i] = StreamTuples[3]
    /\ \E i \in 1..2 : StreamTuples[i][1] > StreamTuples[3][1]

\* --------------------------------------------------- SharpeRatioCalculator
\* A Sharpe ratio is a float in the program.  With n the number of rows and
\* A the annualization factor of the call, the model keeps the ratio
\*   (A * mean - rf) / (std * sqrt(A))
\* as the pair num = A * sum - n * rf, den2 = n * sum of squares - sum * sum:
\* the ratio is num / sqrt(den2) times sqrt((n - 1) / (n * A)), the same
\* positive factor for every ticker of a call.  0.0 is num = 0, den2 = 1.
SharpeNaN == [nan |-> TRUE, num |-> 0, den2 |-> 1]
SharpeZero == [nan |-> FALSE, num |-> 0, den2 |-> 1]

\* calculate_sharpe_ratios with the test of line 32 left out: the division
\* by a volatility of 0 gives an infinity, or NaN for 0 / 0
SharpeRatioNoZeroCheck(df, ticker, risk_free_rate) ==
    LET c == IndexOf(df.columns, ticker)
        n == Len(df.rows)
        excess == AnnualizationFactor * ColumnSum(df.rows, c) - n * risk_free_rate
    IN  IF n < 2 \/ (CoMoment(df.rows, c, c) = 0 /\ excess = 0) THEN SharpeNaN
        ELSE [nan |-> FALSE, num |-> excess, den2 |-> CoMoment(df.rows, c, c)]

\* calculate_sharpe_ratios, lines 26-35, for one ticker that is a column:
\* Series.std() of fewer than two values is NaN, which is not == 0
SharpeRatio(df, ticker, risk_free_rate) ==
    LET c == IndexOf(df.columns, ticker)
        n == Len(df.rows)
        excess == AnnualizationFactor * ColumnSum(df.rows, c) - n * risk_free_rate
    IN  IF n < 2 THEN SharpeNaN
        ELSE IF CoMoment(df.rows, c, c) = 0 THEN SharpeZero
        ELSE [nan |-> FALSE, num |-> excess, den2 |-> CoMoment(df.rows, c, c)]

\* calculate_sharpe_ratios: self.returns_df[ticker] raises KeyError for a
\* ticker that is no column
CalculateSharpeRatios(df, tickers, risk_free_rate) ==
    IF \E i \in 1..Len(tickers) : tickers[i] \notin Range(df.columns)
    THEN [raised |-> "KeyError", value |-> <<>>]
    ELSE [raised |-> "none",
          value |-> [i \in 1..Len(tickers) |->
                        SharpeRatio(df, tickers[i], risk_free_rate)]]

\* a < b on the ratios of one call: false as soon as one side is NaN
SharpeLt(a, b) ==
    LET sq(x) == IF x < 0 THEN -(x * x) ELSE x * x
    IN  ~a.nan /\ ~b.nan /\ sq(a.num) * b.den2 < sq(b.num) * a.den2

\* ranked_stocks.sort(key=lambda x: x[1]) without reverse=True: ascending,
\* equal keys in list order
RECURSIVE SortedBySharpe(_)
SortedBySharpe(list) ==
    IF list = <<>> THEN <<>>
    ELSE LET front == SortedBySharpe(SubSeq(list, 1, Len(list) - 1))
             x == list[Len(list)]
             k == Cardinality({i \in 1..Len(front) : ~SharpeLt(x[2], front[i][2])})
         IN  SubSeq(front, 1, k) \o <<x>> \o SubSeq(front, k + 1, Len(front))

\* ranked_stocks.sort(key=lambda x: x[1], reverse=True): descending, the
\* sort being stable, equal keys stay in list order
RECURSIVE SortedBySharpeReverse(_)
SortedBySharpeReverse(list) ==
    IF list = <<>> THEN <<>>
    ELSE LET front == SortedBySharpeReverse(SubSeq(list, 1, Len(list) - 1))
             x == list[Len(list)]
             k == Cardinality({i \in 1..Len(front) : ~SharpeLt(front[i][2], x[2])})
         IN  SubSeq(front, 1, k) \o <<x>> \o SubSeq(front, k + 1, Len(front))

\* get_sharpe_ranking with the sort of line 52 ascending
GetSharpeRankingAscending(df, tickers, risk_free_rate) ==
    LET sharpe_ratios == CalculateSharpeRatios(df, tickers, risk_free_rate)
    IN  IF sharpe_ratios.raised # "none" THEN sharpe_ratios
        ELSE [raised |-> "none",
              value |-> SortedBySharpe(
                    [i \in 1..Len(tickers) |-> <<tickers[i], sharpe_ratios.value[i]>>])]

\* get_sharpe_ranking
GetSharpeRanking(df, tickers, risk_free_rate) ==
    LET sharpe_ratios == CalculateSharpeRatios(df, tickers, risk_free_rate)
    IN  IF sharpe_ratios.raised # "none" THEN sharpe_ratios
        ELSE [raised |-> "none",
              value |-> SortedBySharpeReverse(
                    [i \in 1..Len(tickers) |-> <<tickers[i], sharpe_ratios.value[i]>>])]

\* get_top_sharpe_stocks
GetTopSharpeStocks(df, tickers, top_k, risk_free_rate) ==
    LET ranked_stocks == GetSharpeRanking(df, tickers, risk_free_rate)
    IN  IF ranked_stocks.raised # "none" THEN ranked_stocks
        ELSE [raised |-> "none", value |-> Slice(ranked_stocks.value, top_k)]

\* ---------------------------------------------------------- Sharpe actions
\* SharpeRatioCalculator.__init__ with its returns_df and ordered_tickers
InitSharpe ==
    /\ \E columns \in ColumnOrders, days \in 1..MaxWindow :
        \E rows \in [1..days -> [1..Len(columns) -> ReturnValues]] :
            returns_df = [columns |-> columns, rows |-> rows]
    /\ ordered_tickers \in InjSeqs(Tickers)
    /\ matrix_df = NoMatrix
    /\ ccall = NoCalcCall
    /\ cret = NoRet
    /\ NoCallers
    /\ NoDatabase
    /\ NoPrices
    /\ pc = "idle"
    /\ rcall = NoRankCall
    /\ total_returns = <<>>
    /\ idx = 0
    /\ kheap = <<>>
    /\ rret = NoRet
    /\ correlation_matrix = <<>>
    /\ threshold = 1
    /\ graph = <<>>
    /\ call = NoCall
    /\ ret = NoRet

CalculateSharpeRatiosCall ==
    /\ ccall.op = "none"
    /\ \E risk_free_rate \in RiskFreeRates :
        /\ ccall' = [NoCalcCall EXCEPT !.op = "calculate_sharpe_ratios",
                                       !.risk_free_rate = risk_free_rate]
        /\ cret' = CalculateSharpeRatios(returns_df, ordered_tickers, risk_free_rate)
    /\ UNCHANGED <<matrix_df, gvars, rvars, xvars>>

GetSharpeRankingCall ==
    /\ ccall.op = "none"
    /\ \E risk_free_rate \in RiskFreeRates :
        /\ ccall' = [NoCalcCall EXCEPT !.op = "get_sharpe_ranking",
                                       !.risk_free_rate = risk_free_rate]
        /\ cret' = GetSharpeRanking(returns_df, ordered_tickers, risk_free_rate)
    /\ UNCHANGED <<matrix_df, gvars, rvars, xvars>>

GetTopSharpeStocksCall ==
    /\ ccall.op = "none"
    /\ \E risk_free_rate \in RiskFreeRates, top_k \in 0..MaxK :
        /\ ccall' = [NoCalcCall EXCEPT !.op = "get_top_sharpe_stocks",
                                       !.k = top_k,
                                       !.risk_free_rate = risk_free_rate]
        /\ cret' = GetTopSharpeStocks(returns_df, ordered_tickers, top_k, risk_free_rate)
    /\ UNCHANGED <<matrix_df, gvars, rvars, xvars>>

NextSharpe ==
    \/ CalculateSharpeRatiosCall
    \/ GetSharpeRankingCall
    \/ GetTopSharpeStocksCall
    \/ CalcReturn

SpecSharpe == InitSharpe /\ [][NextSharpe]_vars

\* ------------------------------------------------- queries on a built object
\* A behaviour of SpecFrame follows one object through any sequence of
\* queries: a CorrelationNetworkGraph as __init__ built it, or a matrix as
\* calculate_correlation_matrix returned it (matrix_df.built tells which).

\* get_similar_stocks with lines 31-33 reading
\* self.graph.setdefault(ticker, {}): an unknown ticker becomes a node
GraphAfterLookupSetdefault(g, ticker) ==
    [t \in DOMAIN g \cup {ticker} |-> IF t \in DOMAIN g THEN g[t] ELSE <<>>]

\* self.graph as lines 31-50 leave it for one input ticker: `in`, [...] and
\* .items() on a plain dict read it and add no key
GraphAfterLookup(g, ticker) == g

\* self.graph as the loop of get_similar_stocks over its input leaves it
RECURSIVE GraphAfterQuery(_, _)
GraphAfterQuery(g, rest) ==
    IF rest = <<>> THEN g
    ELSE GraphAfterQuery(GraphAfterLookup(g, Head(rest)), Tail(rest))

\* iterating a set of tickers: CPython fixes the order by the hashes of the
\* strings, which one process computes once (hash_order stands for them)
SetOrder(order, S) == SelectSeq(order, LAMBDA x : x \in S)

InitFrame ==
    /\ \/ /\ ordered_tickers \in InjSeqs(Tickers)
          /\ correlation_matrix \in Matrices(Len(ordered_tickers))
          /\ threshold \in Thresholds
          /\ graph = BuildGraph(correlation_matrix, ordered_tickers, threshold)
          /\ hash_order \in Perms(Tickers)
          /\ returns_df = [columns |-> <<>>, rows |-> <<>>]
          /\ matrix_df = NoMatrix
       \/ /\ \E columns \in ColumnOrders, days \in 1..MaxWindow :
                \E rows \in [1..days -> [1..Len(columns) -> ReturnValues]] :
                    returns_df = [columns |-> columns, rows |-> rows]
          /\ matrix_df = CalculateCorrelationMatrix(returns_df, Len(returns_df.rows)).value
          /\ ordered_tickers = <<>>
          /\ correlation_matrix = <<>>
          /\ threshold = 1
          /\ graph = <<>>
          /\ hash_order = <<>>
    /\ frames = <<>>
    /\ call = NoCall
    /\ ret = NoRet
    /\ ccall = NoCalcCall
    /\ cret = NoRet
    /\ pc = "idle"
    /\ rcall = NoRankCall
    /\ total_returns = <<>>
    /\ idx = 0
    /\ kheap = <<>>
    /\ rret = NoRet
    /\ NoDatabase
    /\ NoPrices

\* get_similar_stocks on the built graph
SimilarQuery ==
    /\ call.op = "none"
    /\ ~matrix_df.built
    /\ \E query \in SeqsUpTo(Tickers, MaxQueryLen), n \in 0..MaxN :
        /\ call' = [op |-> "get_similar_stocks", tickers |-> query, n |-> n]
        /\ ret' = [raised |-> "none",
                   value |-> GetSimilarStocks(graph, ordered_tickers, query, n)]
        /\ graph' = GraphAfterQuery(graph, query)
    /\ UNCHANGED <<correlation_matrix, ordered_tickers, threshold, rvars, cvars, xvars>>

\* get_common_similar_stocks on the built graph: line 71 calls
\* get_similar_stocks, lines 89-101 read self.graph[ticker]
CommonQuery ==
    /\ call.op = "none"
    /\ ~matrix_df.built
    /\ \E query \in SeqsUpTo(Tickers, MaxQueryLen), n \in 0..MaxN :
        LET common_stocks == CommonOf(graph, ordered_tickers, query)
        IN  /\ call' = [op |-> "get_common_similar_stocks",
                        tickers |-> query, n |-> n]
            /\ ret' = GetCommonSimilarStocks(graph, ordered_tickers, query, n,
                                             SetOrder(hash_order, common_stocks))
            /\ graph' = GraphAfterQuery(graph, query)
    /\ UNCHANGED <<correlation_matrix, ordered_tickers, threshold, rvars, cvars, xvars>>

\* get_graph_info on the built graph
InfoQuery ==
    /\ call.op = "none"
    /\ ~matrix_df.built
    /\ call' = [op |-> "get_graph_info", tickers |-> <<>>, n |-> 0]
    /\ ret' = [raised |-> "none",
               value |-> GetGraphInfo(graph, ordered_tickers, threshold)]
    /\ UNCHANGED <<correlation_matrix, ordered_tickers, threshold, graph, rvars, cvars, xvars>>

\* a matrix query on the built matrix: the methods take the column with
\* correlation_matrix[ticker] and work on what drop, nlargest, nsmallest,
\* the mask and sort_values return, all of them new objects
BuiltMatrixQuery(op, ticker, k, thr, results) ==
    /\ ccall.op = "none"
    /\ matrix_df.built
    /\ ccall' = [NoCalcCall EXCEPT !.op = op, !.ticker = ticker, !.k = k,
                                   !.threshold = thr]
    /\ cret' \in results
    /\ UNCHANGED <<matrix_df, gvars, rvars, xvars>>

TopkQuery ==
    \E ticker \in Tickers, k \in 0..MaxK :
        BuiltMatrixQuery("get_topk_similar_stocks", ticker, k, 0,
                         GetTopkSimilarStocks(matrix_df, ticker, k))

LeastkQuery ==
    \E ticker \in Tickers, k \in 0..MaxK :
        BuiltMatrixQuery("get_leastk_similar_stocks", ticker, k, 0,
                         GetLeastkSimilarStocks(matrix_df, ticker, k))

SimilarThresholdQuery ==
    \E ticker \in Tickers, thr \in QueryThresholds :
        BuiltMatrixQuery("get_similar_stocks_threshold", ticker, 0, thr,
                         GetSimilarStocksThreshold(matrix_df, ticker, thr))

DissimilarThresholdQuery ==
    \E ticker \in Tickers, thr \in QueryThresholds :
        BuiltMatrixQuery("get_dissimilar_stocks_threshold", ticker, 0, thr,
                         GetDissimilarStocksThreshold(matrix_df, ticker, thr))

\* the caller takes the result of the matrix query and keeps the matrix
BuiltMatrixReturn ==
    /\ ccall.op # "none"
    /\ matrix_df.built
    /\ ccall' = NoCalcCall
    /\ cret' = NoRet
    /\ UNCHANGED <<matrix_df, gvars, rvars, xvars>>

NextFrame ==
    \/ CommonQuery
    \/ SimilarQuery
    \/ InfoQuery
    \/ GraphReturn
    \/ TopkQuery
    \/ LeastkQuery
    \/ SimilarThresholdQuery
    \/ DissimilarThresholdQuery
    \/ BuiltMatrixReturn

SpecFrame == InitFrame /\ [][NextFrame]_vars

\* ------------------------------------------------------ concurrent callers
\* Several callers run get_similar_stocks / get_common_similar_stocks on one
\* built graph at the same time.  A frame holds the local variables of one
\* call; a step is one pass through the head of a loop of the method.
Callers == {1, 2}

\* the calls of the concurrent callers: the neighbours of one ticker, cut
\* to one or not cut, and the common neighbours of two tickers
CallerCalls ==
    {[op |-> "get_similar_stocks", tickers |-> <<a>>, n |-> n] :
        a \in Tickers, n \in {1, MaxN}}
    \cup {[op |-> "get_common_similar_stocks", tickers |-> <<p[1], p[2]>>, n |-> MaxN] :
        p \in {x \in Tickers \X Tickers : x[1] < x[2]}}

NoFrame ==
    [op |-> "none", tickers |-> <<>>, n |-> 0, top |-> 0, pc |-> "idle", i |-> 0,
     items |-> <<>>, heap |-> <<>>, visited |-> {}, similar_stocks |-> <<>>,
     results |-> <<>>, value |-> NoRet]

\* the ticker the for loop of line 30 stands at
TickerOf(f) == f.tickers[f.i]

\* results[ticker] = value
SetResult(results, ticker, value) ==
    [t \in DOMAIN results \cup {ticker} |-> IF t = ticker THEN value ELSE results[t]]

\* the call: get_common_similar_stocks returns at line 68 for an empty list,
\* and calls get_similar_stocks with n=len(self.ordered_tickers) at line 71
EnterFrame(op, query, n, tickers) ==
    IF op = "get_common_similar_stocks" /\ query = <<>>
    THEN [NoFrame EXCEPT !.op = op, !.top = n, !.pc = "done",
                         !.value = [raised |-> "none", value |-> <<>>]]
    ELSE [NoFrame EXCEPT !.op = op, !.tickers = query, !.top = n, !.pc = "for", !.i = 1,
                         !.n = IF op = "get_similar_stocks" THEN n ELSE Len(tickers)]

\* line 30, the head of the for loop over the input list, and lines 31-37
ForStep(f, g, tickers) ==
    IF f.i > Len(f.tickers)
    THEN IF f.op = "get_similar_stocks"
         THEN [f EXCEPT !.pc = "done",
                        !.value = [raised |-> "none", value |-> f.results]]
         ELSE [f EXCEPT !.pc = "common"]
    ELSE IF TickerOf(f) \notin DOMAIN g
    THEN [f EXCEPT !.results = SetResult(f.results, TickerOf(f), <<>>), !.i = f.i + 1]
    ELSE [f EXCEPT !.heap = <<>>, !.visited = {TickerOf(f)}, !.pc = "outgoing",
                   !.items = KeysInOrder(tickers, DOMAIN g[TickerOf(f)])]

\* line 40, the head of the loop over the outgoing edges, and lines 41-43
OutgoingStep(f, g, tickers) ==
    IF f.items = <<>>
    THEN [f EXCEPT !.pc = "incoming", !.items = KeysInOrder(tickers, DOMAIN g)]
    ELSE LET st == OutgoingLoop(g, TickerOf(f), <<Head(f.items)>>,
                                [heap |-> f.heap, visited |-> f.visited])
         IN  [f EXCEPT !.heap = st.heap, !.visited = st.visited,
                       !.items = Tail(f.items)]

\* get_similar_stocks with heap and visited kept in attributes of self: a
\* push of one caller shows in the heap of every caller
AfterOutgoingSharedHeap(fs, t, g, tickers) ==
    LET f == OutgoingStep(fs[t], g, tickers)
    IN  [u \in DOMAIN fs |->
            IF u = t THEN f ELSE [fs[u] EXCEPT !.heap = f.heap, !.visited = f.visited]]

\* the frames after caller t went through line 40: heap and visited are
\* locals of the call (lines 36-37), no other frame changes
AfterOutgoing(fs, t, g, tickers) ==
    [fs EXCEPT ![t] = OutgoingStep(fs[t], g, tickers)]

\* line 46, the head of the loop over the sources, and lines 47-50
IncomingStep(f, g, tickers) ==
    IF f.items = <<>>
    THEN [f EXCEPT !.pc = "pop", !.similar_stocks = <<>>]
    ELSE LET st == IncomingLoop(g, TickerOf(f), <<Head(f.items)>>,
                                [heap |-> f.heap, visited |-> f.visited])
         IN  [f EXCEPT !.heap = st.heap, !.visited = st.visited,
                       !.items = Tail(f.items)]

\* line 54, the head of the while loop, and lines 55-61
PopStep(f) ==
    IF f.heap # <<>> /\ Len(f.similar_stocks) < f.n
    THEN LET p == heappop(f.heap)
         IN  [f EXCEPT !.heap = p[2],
                       !.similar_stocks = Append(f.similar_stocks,
                            [ticker |-> p[1][2], correlation_strength |-> -p[1][1]])]
    ELSE [f EXCEPT !.results = SetResult(f.results, TickerOf(f), f.similar_stocks),
                   !.i = f.i + 1, !.pc = "for"]

\* get_common_similar_stocks, lines 74-110, on the all_similar of the call;
\* order is the order in which the set common_stocks is iterated
CommonStep(f, g, tickers, order) ==
    [f EXCEPT !.pc = "done",
              !.value = GetCommonSimilarStocks(g, tickers, f.tickers, f.top, order)]

\* one graph, built by __init__, and callers that have not called yet
InitCallers ==
    /\ ordered_tickers \in {o \in ColumnOrders : Len(o) >= 2}
    /\ correlation_matrix \in Matrices(Len(ordered_tickers))
    /\ threshold \in {thr \in Thresholds : thr < 2}
    /\ graph = BuildGraph(correlation_matrix, ordered_tickers, threshold)
    /\ hash_order = <<>>
    /\ frames = [t \in Callers |-> NoFrame]
    /\ call = NoCall
    /\ ret = NoRet
    /\ returns_df = [columns |-> <<>>, rows |-> <<>>]
    /\ pc = "idle"
    /\ rcall = NoRankCall
    /\ total_returns = <<>>
    /\ idx = 0
    /\ kheap = <<>>
    /\ rret = NoRet
    /\ matrix_df = NoMatrix
    /\ ccall = NoCalcCall
    /\ cret = NoRet
    /\ NoDatabase
    /\ NoPrices

\* a step of caller t that leaves the frames as fs
CallerStep(fs) ==
    /\ frames' = fs
    /\ UNCHANGED <<hash_order, gvars, rvars, cvars, dvars, pvars>>

CallerEnter ==
    \E t \in Callers :
        /\ frames[t].pc = "idle"
        /\ \E c \in CallerCalls :
            CallerStep([frames EXCEPT ![t] =
                            EnterFrame(c.op, c.tickers, c.n, ordered_tickers)])

CallerFor ==
    \E t \in Callers :
        /\ frames[t].pc = "for"
        /\ CallerStep([frames EXCEPT ![t] = ForStep(frames[t], graph, ordered_tickers)])

CallerOutgoing ==
    \E t \in Callers :
        /\ frames[t].pc = "outgoing"
        /\ CallerStep(AfterOutgoing(frames, t, graph, ordered_tickers))

CallerIncoming ==
    \E t \in Callers :
        /\ frames[t].pc = "incoming"
        /\ CallerStep([frames EXCEPT ![t] = IncomingStep(frames[t], graph, ordered_tickers)])

CallerPop ==
    \E t \in Callers :
        /\ frames[t].pc = "pop"
        /\ CallerStep([frames EXCEPT ![t] = PopStep(frames[t])])

CallerCommon ==
    \E t \in Callers :
        /\ frames[t].pc = "common"
        /\ \E order \in Perms(CommonStocks(frames[t].results, frames[t].tickers)) :
            CallerStep([frames EXCEPT ![t] =
                            CommonStep(frames[t], graph, ordered_tickers, order)])

\* the caller takes the result, or catches the exception
CallerReturn ==
    \E t \in Callers :
        /\ frames[t].pc = "done"
        /\ CallerStep([frames EXCEPT ![t] = NoFrame])

NextCallers ==
    \/ CallerEnter
    \/ CallerFor
    \/ CallerOutgoing
    \/ CallerIncoming
    \/ CallerPop
    \/ CallerCommon
    \/ CallerReturn

SpecCallers == InitCallers /\ [][NextCallers]_vars

\* ------------------------------------------------- rankers and graph queries
\* A behaviour of SpecTies follows one object: a StockAnalyzer through its
\* ranking calls (it has a returns_df of at least one row), or a built graph
\* through its queries.
InitTies == InitRank \/ InitGraph

NextTies ==
    \/ returns_df.rows # <<>> /\ NextRank
    \/ returns_df.rows = <<>> /\ NextGraph

SpecTies == InitTies /\ [][NextTies]_vars

\* ----------------------------------------------------- performance actions
\* StockAnalyzer.__init__, lines 7-12: a returns_df of up to MaxDays rows, none
\* included
InitPeriods ==
    /\ \E columns \in ColumnOrders, days \in 0..MaxDays :
        \E rows \in [1..days -> [1..Len(columns) -> ReturnValues]] :
            returns_df = [columns |-> columns, rows |-> rows]
    /\ correlation_matrix = <<>>
    /\ ordered_tickers = <<>>
    /\ threshold = 1
    /\ graph = <<>>
    /\ call = NoCall
    /\ ret = NoRet
    /\ pc = "idle"
    /\ rcall = NoRankCall
    /\ total_returns = <<>>
    /\ idx = 0
    /\ kheap = <<>>
    /\ rret = NoRet
    /\ matrix_df = NoMatrix
    /\ ccall = NoCalcCall
    /\ cret = NoRet
    /\ NoCallers
    /\ NoDatabase
    /\ NoPrices

\* StockAnalyzer.analyze_multiple_periods(ticker, periods)
AnalyzeMultiplePeriodsCall ==
    /\ pc = "idle"
    /\ ccall.op = "none"
    /\ \E ticker \in Tickers,
          periods \in SeqsUpTo(0..(Len(returns_df.rows) + 1), MaxPeriods) :
        /\ ccall' = [NoCalcCall EXCEPT !.op = "analyze_multiple_periods",
                                       !.ticker = ticker, !.periods = periods]
        /\ cret' = AnalyzeMultiplePeriods(returns_df, ticker, periods)
    /\ UNCHANGED <<matrix_df, gvars, rvars, xvars>>

NextPeriods ==
    \/ AnalyzeMultiplePeriodsCall
    \/ GetStockPerformanceCall
    \/ CalcReturn

SpecPeriods == InitPeriods /\ [][NextPeriods]_vars

\* ------------------------------------------------------- ConnectionManager
\* _connection is 0 for None, or the position in connections of the
\* connection object it refers to.

\* close, lines 32-34, without line 34: the reference is kept
AfterCloseKeepsReference(connection) == connection

\* close, lines 32-34: what _connection is after close
AfterClose(connection) == 0

\* no graph, no StockAnalyzer, no calculator
NoObjects ==
    /\ correlation_matrix = <<>>
    /\ threshold = 1
    /\ graph = <<>>
    /\ call = NoCall
    /\ ret = NoRet
    /\ returns_df = [columns |-> <<>>, rows |-> <<>>]
    /\ pc = "idle"
    /\ rcall = NoRankCall
    /\ total_returns = <<>>
    /\ idx = 0
    /\ kheap = <<>>
    /\ rret = NoRet
    /\ matrix_df = NoMatrix
    /\ ccall = NoCalcCall
    /\ cret = NoRet
    /\ NoCallers

\* the class statement, lines 4-6
InitManager ==
    /\ NoDatabase
    /\ NoPrices
    /\ NoObjects
    /\ ordered_tickers = <<>>

\* a method was called with arg and returned value, or raised
Called(op, arg, value, raised) ==
    /\ Len(mcalls) < MaxCalls
    /\ mcalls' = Append(mcalls, [op |-> op, arg |-> arg, value |-> value,
                                  raised |-> raised])

\* get_connection, lines 13-20
GetConnectionCall ==
    /\ IF _connection = 0
       THEN IF _db_path \in Unopenable
            THEN /\ Called("get_connection", 0, 0, "OperationalError")
                 /\ UNCHANGED <<_connection, connections>>
            ELSE /\ connections' = Append(connections,
                                         [path |-> _db_path, open |-> TRUE])
                 /\ _connection' = Len(connections) + 1
                 /\ Called("get_connection", 0, Len(connections) + 1, "none")
       ELSE /\ Called("get_connection", 0, _connection, "none")
            /\ UNCHANGED <<_connection, connections>>
    /\ UNCHANGED <<_db_path, gvars, rvars, cvars, tvars, pvars>>

\* set_db_path, lines 22-24
SetDbPathCall ==
    /\ \E db_path \in Paths :
        /\ _db_path' = db_path
        /\ Called("set_db_path", db_path, 0, "none")
    /\ UNCHANGED <<_connection, connections, gvars, rvars, cvars, tvars, pvars>>

\* get_db_path, lines 26-28
GetDbPathCall ==
    /\ Called("get_db_path", 0, _db_path, "none")
    /\ UNCHANGED <<_db_path, _connection, connections, gvars, rvars, cvars, tvars, pvars>>

\* close, lines 30-37
CloseCall ==
    /\ IF _connection # 0
       THEN /\ connections' = [connections EXCEPT ![_connection].open = FALSE]
            /\ _connection' = AfterClose(_connection)
       ELSE UNCHANGED <<_connection, connections>>
    /\ Called("close", 0, 0, "none")
    /\ UNCHANGED <<_db_path, gvars, rvars, cvars, tvars, pvars>>

\* is_connected, lines 39-41
IsConnectedCall ==
    /\ Called("is_connected", 0, _connection # 0, "none")
    /\ UNCHANGED <<_db_path, _connection, connections, gvars, rvars, cvars, tvars, pvars>>

NextManager ==
    \/ GetConnectionCall
    \/ SetDbPathCall
    \/ GetDbPathCall
    \/ CloseCall
    \/ IsConnectedCall

SpecManager == InitManager /\ [][NextManager]_vars

\* ------------------------------------------------------ AssetPricesManager
\* Dates are the numbers 1..MaxDate, 0 stands for None (the MAX of no row).
\* stock_prices is a set of rows <<date, ticker, close>>; asset_prices.rows
\* are the rows of the table in the order of their insertion, each a date
\* and one value per ticker of ordered_tickers.
Dates == 1..MaxDate
Closes == {1, 2}
\* the tickers of stock_prices: one of ordered_tickers and one outside it
StockTickers == {1, 3}
NoDate == 0

RECURSIVE SubsetsUpTo(_, _)
SubsetsUpTo(S, n) ==
    IF n = 0 THEN {{}}
    ELSE LET smaller == SubsetsUpTo(S, n - 1)
         IN  smaller \cup {s \cup {x} : s \in smaller, x \in S}

\* SELECT MAX(date): None for no row
MaxOf(dates) ==
    IF dates = {} THEN NoDate
    ELSE CHOOSE d \in dates : \A e \in dates : e <= d

\* the elements of a set of dates as an ascending list
RECURSIVE Ascending(_)
Ascending(dates) ==
    IF dates = {} THEN <<>>
    ELSE LET least == CHOOSE d \in dates : \A e \in dates : d <= e
         IN  <<least>> \o Ascending(dates \ {least})

RowDates(rows) == {rows[i].date : i \in 1..Len(rows)}

\* _get_last_update_date, lines 17-24
GetLastUpdateDate(table) ==
    IF ~table.exists THEN NoDate ELSE MaxOf(RowDates(table.rows))

\* dates_query, lines 134-141, without AND date <= ?
DatesToUpdateAnyLater(stock, last_update_date, target_date) ==
    Ascending({row[1] : row \in {r \in stock : r[1] > last_update_date}})

\* dates_query, lines 134-141
DatesToUpdate(stock, last_update_date, target_date) ==
    Ascending({row[1] : row \in {r \in stock :
                    r[1] > last_update_date /\ r[1] <= target_date}})

\* prices_query, lines 150-160
PricesData(stock, dates_list, tickers) ==
    {r \in stock : r[1] \in Range(dates_list) /\ r[2] \in Range(tickers)}

\* pivot, fillna(0), the missing columns and the column order, lines 163-175:
\* one row per date of prices_data, ascending
PivotData(prices_data, tickers) ==
    LET index == Ascending({r[1] : r \in prices_data})
    IN  [i \in 1..Len(index) |->
            [date |-> index[i],
             values |-> [c \in 1..Len(tickers) |->
                            IF \E r \in prices_data :
                                    r[1] = index[i] /\ r[2] = tickers[c]
                            THEN (CHOOSE r \in prices_data :
                                    r[1] = index[i] /\ r[2] = tickers[c])[3]
                            ELSE 0]]]

\* the INSERT loop, lines 177-184: date is the primary key of asset_prices
RECURSIVE InsertRows(_, _)
InsertRows(table_rows, new_rows) ==
    IF new_rows = <<>> THEN [raised |-> "none", rows |-> table_rows]
    ELSE IF Head(new_rows).date \in RowDates(table_rows)
         THEN [raised |-> "IntegrityError", rows |-> table_rows]
         ELSE InsertRows(Append(table_rows, Head(new_rows)), Tail(new_rows))

\* update_asset_prices, lines 108-187: the exception raised and the rows of
\* asset_prices when the call ends (nothing is committed when it raises)
UpdateAssetPrices(stock, table, tickers, target_date_arg) ==
    LET target_date == IF target_date_arg = NoDate
                       THEN MaxOf({r[1] : r \in stock})
                       ELSE target_date_arg
        last_update_date == GetLastUpdateDate(table)
        dates_list == DatesToUpdate(stock, last_update_date, target_date)
        prices_data == PricesData(stock, dates_list, tickers)
        inserted == InsertRows(table.rows, PivotData(prices_data, tickers))
    IN  IF ~table.exists THEN [raised |-> "none", rows |-> table.rows]
        ELSE IF last_update_date = NoDate THEN [raised |-> "none", rows |-> table.rows]
        ELSE IF target_date = NoDate THEN [raised |-> "TypeError", rows |-> table.rows]
        ELSE IF last_update_date >= target_date
             THEN [raised |-> "none", rows |-> table.rows]
        ELSE IF dates_list = <<>> THEN [raised |-> "none", rows |-> table.rows]
        ELSE IF \E r, q \in prices_data : r # q /\ r[1] = q[1] /\ r[2] = q[2]
             THEN [raised |-> "ValueError", rows |-> table.rows]
        ELSE IF inserted.raised # "none"
             THEN [raised |-> inserted.raised, rows |-> table.rows]
        ELSE inserted

\* AssetPricesManager.__init__, lines 6-9, on a database whose stock_prices
\* holds any rows and whose asset_prices is missing, empty, or holds one row
\* per date of some dates
InitAssets ==
    /\ ordered_tickers = <<2, 1>>
    /\ stock_prices \in SubsetsUpTo(Dates \X StockTickers \X Closes, MaxStockRows)
    /\ \E exists \in BOOLEAN, dates \in SUBSET Dates :
        /\ ~exists => dates = {}
        /\ asset_prices =
              [exists |-> exists,
               rows |-> [i \in 1..Cardinality(dates) |->
                           [date |-> Ascending(dates)[i],
                            values |-> [c \in 1..Len(ordered_tickers) |-> 0]]]]
    /\ acall = NoUpdateCall
    /\ NoDatabase
    /\ NoObjects

\* update_asset_prices, lines 108-187
UpdateAssetPricesCall ==
    /\ \E target_date \in {NoDate} \cup Dates :
        LET out == UpdateAssetPrices(stock_prices, asset_prices, ordered_tickers,
                                     target_date)
        IN  /\ asset_prices' = [asset_prices EXCEPT !.rows = out.rows]
            /\ acall' = [op |-> "update_asset_prices",
                         target_date |-> target_date,
                         raised |-> out.raised,
                         before |-> asset_prices,
                         earlier |-> [op |-> acall.op,
                                      target_date |-> acall.target_date,
                                      rows |-> Len(acall.before.rows)]]
    /\ UNCHANGED <<stock_prices, gvars, rvars, cvars, tvars, dvars>>

NextAssets == UpdateAssetPricesCall

SpecAssets == InitAssets /\ [][NextAssets]_vars

\* ------------------------------------------------------- calculator claims
\* the rows of the table that a window of n_days ends with, by position
WindowRows(n_days) ==
    LET total == Len(returns_df.rows)
    IN  [i \in 1..n_days |-> returns_df.rows[total - n_days + i]]

\* the sum of the returns of column c on the days of the window
RECURSIVE WindowSum(_, _, _)
WindowSum(n_days, c, i) ==
    IF i > Len(returns_df.rows) THEN 0
    ELSE (IF i > Len(returns_df.rows) - n_days THEN returns_df.rows[i][c] ELSE 0)
         + WindowSum(n_days, c, i + 1)

\* C13: calculate_correlation_matrix, topk_stocks, leastk_stocks and
\* get_stock_performance raise ValueError exactly when n_days is greater
\* than the number of rows of the table, and otherwise work on the last
\* n_days rows and on no other row.
C13_WindowCheckAndTrailingRows ==
    LET total == Len(returns_df.rows)
    IN  /\ ccall.op = "calculate_correlation_matrix" =>
            IF ccall.n_days > total
            THEN cret.raised = "ValueError"
            ELSE /\ cret.raised = "none"
                 /\ cret.value = Corr(WindowRows(ccall.n_days), returns_df.columns)
        /\ ccall.op = "get_stock_performance" =>
            IF ccall.n_days > total
            THEN cret.raised = "ValueError"
            ELSE /\ cret.raised = "none"
                 /\ ccall.ticker \in Range(returns_df.columns) =>
                        /\ ~cret.value.is_none
                        /\ cret.value.total =
                                WindowSum(ccall.n_days,
                                          IndexOf(returns_df.columns, ccall.ticker), 1)
        /\ rcall.op \in {"topk_stocks", "leastk_stocks"} =>
            IF rcall.n_days > total
            THEN pc = "done" /\ rret.raised = "ValueError"
            ELSE /\ rret.raised # "ValueError"
                 /\ total_returns =
                        [c \in 1..Len(returns_df.columns) |->
                            <<returns_df.columns[c], WindowSum(rcall.n_days, c, 1)>>]

\* a matrix from the last two of three rows, different from the one the
\* first two rows give
C13_Witness ==
    /\ ccall.op = "calculate_correlation_matrix"
    /\ ccall.n_days = 2
    /\ Len(returns_df.rows) = 3
    /\ cret.raised = "none"
    /\ cret.value # Corr(SubSeq(returns_df.rows, 1, 2), returns_df.columns)
    /\ \E i, j \in 1..Len(returns_df.columns) :
            ~cret.value.values[i][j].nan /\ cret.value.values[i][j].num < 0

\* the four queries on a correlation matrix
MatrixQueries ==
    {"get_topk_similar_stocks", "get_leastk_similar_stocks",
     "get_similar_stocks_threshold", "get_dissimilar_stocks_threshold"}

\* C14: each of the four matrix queries raises ValueError and returns
\* nothing when the ticker is no column of the matrix, for every k and
\* every threshold.
C14_UnknownTickerRaises ==
    (ccall.op \in MatrixQueries /\ ccall.ticker \notin Range(matrix_df.columns)) =>
        (cret.raised = "ValueError" /\ cret.value = <<>>)

\* a threshold that lets every correlation pass, a matrix of two tickers,
\* the third ticker queried
C14_Witness ==
    /\ ccall.op = "get_dissimilar_stocks_threshold"
    /\ ccall.threshold = 3
    /\ Len(matrix_df.columns) = 2
    /\ ccall.ticker \notin Range(matrix_df.columns)
    /\ ~matrix_df.values[1][2].nan
    /\ cret.raised = "ValueError"

\* the tickers of a list of (ticker, score) pairs
Labels(list) == {list[i][1] : i \in 1..Len(list)}

\* the correlation of ticker x to the ticker queried, as the matrix has it
ScoreOf(x) ==
    matrix_df.values[IndexOf(matrix_df.columns, x)]
                    [IndexOf(matrix_df.columns, ccall.ticker)]

\* C15, as claimed: get_topk_similar_stocks returns min(k, N - 1) tickers
\* other than t, each with its correlation to t (a number), sorted
\* descending, no ticker left out having a larger correlation than one
\* returned;
\* get_leastk_similar_stocks the same with the smallest, ascending (here on a
\* matrix calculated for a window of at least two days).
C15_TopkLeastkOfOthers ==
    (/\ ccall.op \in {"get_topk_similar_stocks", "get_leastk_similar_stocks"}
     /\ ccall.n_days >= 2
     /\ ccall.ticker \in Range(matrix_df.columns)) =>
        LET list == cret.value
            others == Range(matrix_df.columns) \ {ccall.ticker}
            top == ccall.op = "get_topk_similar_stocks"
        IN  /\ cret.raised = "none"
            /\ Len(list) = Min(ccall.k, Cardinality(others))
            /\ Labels(list) \subseteq others
            /\ Cardinality(Labels(list)) = Len(list)
            /\ \A i \in 1..Len(list) :
                    ~list[i][2].nan /\ list[i][2] = ScoreOf(list[i][1])
            /\ \A i, j \in 1..Len(list) : i < j =>
                    IF top THEN ~CorrLt(list[i][2], list[j][2])
                    ELSE ~CorrLt(list[j][2], list[i][2])
            /\ \A x \in others \ Labels(list), i \in 1..Len(list) :
                    IF top THEN ~CorrLt(list[i][2], ScoreOf(x))
                    ELSE ~CorrLt(ScoreOf(x), list[i][2])

\* C16: get_similar_stocks_threshold returns exactly the tickers other than
\* t whose correlation to t is >= the threshold, each once with that
\* correlation, sorted descending; get_dissimilar_stocks_threshold those
\* with a correlation <= the threshold, sorted ascending; no threshold is
\* rejected or clamped.
C16_ThresholdFilterInclusive ==
    (/\ ccall.op \in {"get_similar_stocks_threshold", "get_dissimilar_stocks_threshold"}
     /\ ccall.ticker \in Range(matrix_df.columns)) =>
        LET list == cret.value
            others == Range(matrix_df.columns) \ {ccall.ticker}
            above == ccall.op = "get_similar_stocks_threshold"
            t == ccall.threshold
            sq == IF t < 0 THEN -(t * t) ELSE t * t
            Passes(x) == /\ ~ScoreOf(x).nan
                         /\ IF above THEN 4 * ScoreOf(x).num >= sq * ScoreOf(x).den
                            ELSE 4 * ScoreOf(x).num <= sq * ScoreOf(x).den
        IN  /\ cret.raised = "none"
            /\ Labels(list) = {x \in others : Passes(x)}
            /\ Cardinality(Labels(list)) = Len(list)
            /\ \A i \in 1..Len(list) : list[i][2] = ScoreOf(list[i][1])
            /\ \A i, j \in 1..Len(list) : i < j =>
                    IF above THEN ~CorrLt(list[i][2], list[j][2])
                    ELSE ~CorrLt(list[j][2], list[i][2])

\* a threshold of 0.5, one correlation of exactly 0.5 returned after a
\* larger one
C16_Witness ==
    /\ ccall.op = "get_similar_stocks_threshold"
    /\ ccall.threshold = 1
    /\ cret.raised = "none"
    /\ Len(cret.value) = 2
    /\ 4 * cret.value[2][2].num = cret.value[2][2].den
    /\ cret.value[1][2].num = cret.value[1][2].den

\* C20, as claimed: for every window 1 <= n_days <= rows the matrix of
\* calculate_correlation_matrix is symmetric and has 1.0 in every cell of
\* its diagonal, also when a ticker has the same return on every day of the
\* window (here for a window of at least two days).
C20_SymmetricUnitDiagonal ==
    (/\ ccall.op = "calculate_correlation_matrix"
     /\ ccall.n_days >= 2
     /\ cret.raised = "none") =>
        LET M == cret.value.values
            N == Len(cret.value.columns)
        IN  /\ \A i \in 1..N : ~M[i][i].nan /\ M[i][i].num = M[i][i].den
            /\ \A i, j \in 1..N : M[i][j] = M[j][i]

\* ----------------------------------------------------------- Sharpe claims
\* C18: get_sharpe_ranking returns one (ticker, score) pair for every ticker
\* of ordered_tickers, the score being the ticker's Sharpe ratio, no entry
\* followed by one of a greater score; get_top_sharpe_stocks(k) returns the
\* first min(k, N) entries of the ranking for the same risk-free rate.
C18_RankingIsSortedPermutation ==
    LET N == Len(ordered_tickers)
        list == cret.value
    IN  /\ (ccall.op = "get_sharpe_ranking" /\ cret.raised = "none") =>
            /\ Len(list) = N
            /\ Labels(list) = Range(ordered_tickers)
            /\ \A i \in 1..Len(list) :
                    list[i][2] = SharpeRatio(returns_df, list[i][1], ccall.risk_free_rate)
            /\ \A i, j \in 1..Len(list) : i < j => ~SharpeLt(list[i][2], list[j][2])
        /\ (ccall.op = "get_top_sharpe_stocks" /\ cret.raised = "none") =>
            /\ Len(list) = Min(ccall.k, N)
            /\ list = SubSeq(GetSharpeRanking(returns_df, ordered_tickers,
                                               ccall.risk_free_rate).value,
                              1, Min(ccall.k, N))

\* three tickers of three different scores, the best one not the first of
\* ordered_tickers, two of them asked for
C18_Witness ==
    /\ ccall.op = "get_top_sharpe_stocks"
    /\ cret.raised = "none"
    /\ ccall.k = 2
    /\ Len(ordered_tickers) = 3
    /\ Len(cret.value) = 2
    /\ cret.value[1][1] # ordered_tickers[1]
    /\ SharpeLt(cret.value[2][2], cret.value[1][2])
    /\ \E t \in Range(ordered_tickers) :
            SharpeLt(SharpeRatio(returns_df, t, ccall.risk_free_rate), cret.value[2][2])

\* C19: calculate_sharpe_ratios returns one score per ticker of
\* ordered_tickers, in that order: exactly 0.0 for a ticker whose volatility
\* is exactly 0, otherwise (annualized return - risk-free rate) /
\* annualized volatility (NaN when the volatility is NaN).
C19_ZeroVolatilityGivesZero ==
    (ccall.op = "calculate_sharpe_ratios" /\ cret.raised = "none") =>
        LET n == Len(returns_df.rows)
        IN  /\ Len(cret.value) = Len(ordered_tickers)
            /\ \A i \in 1..Len(ordered_tickers) :
                LET c == IndexOf(returns_df.columns, ordered_tickers[i])
                    total == WindowSum(n, c, 1)
                    squares == SumProd(returns_df.rows, c, c)
                    score == cret.value[i]
                IN  IF n < 2 THEN score.nan
                    ELSE IF n * squares = total * total
                    THEN ~score.nan /\ score.num = 0 /\ score.den2 = 1
                    ELSE /\ ~score.nan
                         /\ score.num = AnnualizationFactor * total
                                            - n * ccall.risk_free_rate
                         /\ score.den2 = n * squares - total * total

\* a ticker that never moves (score 0.0) listed after one that does, in an
\* order that is not the order of the columns
C19_Witness ==
    /\ ccall.op = "calculate_sharpe_ratios"
    /\ cret.raised = "none"
    /\ Len(cret.value) = 2
    /\ cret.value[1].den2 > 1
    /\ cret.value[1].num # 0
    /\ cret.value[2] = SharpeZero
    /\ IndexOf(returns_df.columns, ordered_tickers[1])
            > IndexOf(returns_df.columns, ordered_tickers[2])
    /\ ColumnSum(returns_df.rows, IndexOf(returns_df.columns, ordered_tickers[2])) # 0

\* ------------------------------------------------------------ frame claims
\* what a query on the built graph returns, computed from the graph as
\* __init__ builds it from the matrix, the tickers and the threshold
AsBuilt == BuildGraph(correlation_matrix, ordered_tickers, threshold)

GraphResultAsBuilt ==
    CASE call.op = "get_similar_stocks" ->
            ret = [raised |-> "none",
                   value |-> GetSimilarStocks(AsBuilt, ordered_tickers,
                                              call.tickers, call.n)]
      [] call.op = "get_common_similar_stocks" ->
            ret = GetCommonSimilarStocks(AsBuilt, ordered_tickers, call.tickers, call.n,
                    SetOrder(hash_order, CommonOf(AsBuilt, ordered_tickers, call.tickers)))
      [] call.op = "get_graph_info" ->
            ret = [raised |-> "none",
                   value |-> GetGraphInfo(AsBuilt, ordered_tickers, threshold)]
      [] OTHER -> TRUE

\* what a query on the built matrix can return, computed from the matrix as
\* calculate_correlation_matrix builds it from returns_df
MatrixResultAsBuilt ==
    LET m == CalculateCorrelationMatrix(returns_df, Len(returns_df.rows)).value
    IN  CASE ccall.op = "get_topk_similar_stocks" ->
                cret \in GetTopkSimilarStocks(m, ccall.ticker, ccall.k)
          [] ccall.op = "get_leastk_similar_stocks" ->
                cret \in GetLeastkSimilarStocks(m, ccall.ticker, ccall.k)
          [] ccall.op = "get_similar_stocks_threshold" ->
                cret \in GetSimilarStocksThreshold(m, ccall.ticker, ccall.threshold)
          [] ccall.op = "get_dissimilar_stocks_threshold" ->
                cret \in GetDissimilarStocksThreshold(m, ccall.ticker, ccall.threshold)
          [] OTHER -> TRUE

\* C21: no query changes the adjacency structure, the correlation matrix,
\* ordered_tickers or the threshold, whatever its arguments and whether it
\* returns or raises; so every query, the first or a repeated one, returns
\* what it returns on the object as it was built.
C21_QueriesLeaveBuiltStateAlone ==
    /\ [][UNCHANGED <<graph, correlation_matrix, ordered_tickers, threshold,
                      matrix_df, returns_df, hash_order>>]_vars
    /\ [](~matrix_df.built => GraphResultAsBuilt)
    /\ [](matrix_df.built => MatrixResultAsBuilt)

\* a query that raised on a ticker unknown to a graph that has an edge, the
\* graph being as it was built
C21_Witness ==
    /\ call.op = "get_common_similar_stocks"
    /\ ret.raised = "KeyError"
    /\ \E t \in Range(call.tickers) : t \notin Range(ordered_tickers)
    /\ EdgeCount(graph) >= 1
    /\ graph = AsBuilt

\* ------------------------------------------------------ concurrency claims
\* what the call of a frame can return when it runs alone on the graph
Alone(f) ==
    IF f.op = "get_similar_stocks"
    THEN {[raised |-> "none",
           value |-> GetSimilarStocks(graph, ordered_tickers, f.tickers, f.top)]}
    ELSE {GetCommonSimilarStocks(graph, ordered_tickers, f.tickers, f.top, order) :
            order \in Perms(CommonOf(graph, ordered_tickers, f.tickers))}

\* C22: whatever the interleaving of the steps of the callers, a call that
\* has ended has the result it has when it runs alone, and the graph is the
\* graph that was built.
C22_InterleavedCallsAsAlone ==
    /\ graph = AsBuilt
    /\ \A t \in Callers : frames[t].pc = "done" => frames[t].value \in Alone(frames[t])

\* a call has ended with a neighbour in its result while another call, on
\* another ticker, is in the middle of its loops with entries in its heap
C22_Witness ==
    \E t, u \in Callers :
        /\ t # u
        /\ frames[t].pc = "done"
        /\ frames[t].op = "get_similar_stocks"
        /\ \E x \in DOMAIN frames[t].value.value : frames[t].value.value[x] # <<>>
        /\ frames[u].pc \in {"outgoing", "incoming", "pop"}
        /\ frames[u].heap # <<>>
        /\ frames[u].tickers # frames[t].tickers

\* ---------------------------------------------------- further graph claims
\* the list holds the entry (ticker, weight)
HasEntry(list, ticker, weight) ==
    \E i \in 1..Len(list) :
        list[i] = [ticker |-> ticker, correlation_strength |-> weight]

\* C23: with n = |ordered_tickers|, b is in the list get_similar_stocks
\* returns for a with weight w exactly when a is in the list it returns for
\* b with the same weight w, for all tickers a and b of the graph; and the
\* list of a holds every neighbour of a.
C23_NeighborRelationSymmetric ==
    (call.op = "get_similar_stocks" /\ call.n = Len(ordered_tickers)) =>
        \A a \in DOMAIN ret.value \cap DOMAIN graph :
            /\ Listed(ret.value[a]) = NeighborsOf(graph, a)
            /\ \A b \in DOMAIN graph, w \in 0..2 :
                LET list_b == IF b \in DOMAIN ret.value THEN ret.value[b]
                              ELSE GetSimilarStocks(graph, ordered_tickers, <<b>>,
                                                    Len(ordered_tickers))[b]
                IN  HasEntry(ret.value[a], b, w) <=> HasEntry(list_b, a, w)

\* two tickers asked for together, joined by one stored edge a -> b: each is
\* in the list of the other, and a has a second neighbour
C23_Witness ==
    /\ call.op = "get_similar_stocks"
    /\ call.n = Len(ordered_tickers)
    /\ \E a, b \in DOMAIN ret.value \cap DOMAIN graph :
        /\ b \in DOMAIN graph[a]
        /\ a \notin DOMAIN graph[b]
        /\ HasEntry(ret.value[a], b, graph[a][b])
        /\ HasEntry(ret.value[b], a, graph[a][b])
        /\ Len(ret.value[a]) = 2

\* C24: get_common_similar_stocks returns none of its input tickers as a
\* common neighbour, and no candidate twice.
C24_CommonExcludesInputs ==
    (call.op = "get_common_similar_stocks" /\ ret.raised = "none") =>
        /\ Listed(ret.value) \cap Range(call.tickers) = {}
        /\ Cardinality(Listed(ret.value)) = Len(ret.value)

\* two input tickers that are neighbours of each other and have a common
\* neighbour: the common neighbour alone is returned
C24_Witness ==
    /\ call.op = "get_common_similar_stocks"
    /\ ret.raised = "none"
    /\ Len(call.tickers) = 2
    /\ call.tickers[1] # call.tickers[2]
    /\ Range(call.tickers) \subseteq DOMAIN graph
    /\ call.tickers[2] \in NeighborsOf(graph, call.tickers[1])
    /\ Len(ret.value) = 1
    /\ ret.value[1].ticker \in NeighborsOf(graph, call.tickers[1])
                                \cap NeighborsOf(graph, call.tickers[2])

\* -------------------------------------------------------------- tie claims
\* the table with its columns taken in the order p
PermuteColumns(df, p) ==
    [columns |-> [i \in 1..Len(df.columns) |-> df.columns[p[i]]],
     rows |-> [r \in 1..Len(df.rows) |->
                [i \in 1..Len(df.columns) |-> df.rows[r][p[i]]]]]

\* the whole scan of topk_stocks / leastk_stocks over a stream, from the
\* state st of the heap
RECURSIVE ScanAll(_, _, _, _)
ScanAll(op, stream, k_stocks, st) ==
    IF stream = <<>> \/ st.raised # "none" THEN st
    ELSE ScanAll(op, Tail(stream), k_stocks,
                 IF op = "topk_stocks"
                 THEN TopkStep(st.heap, k_stocks, Head(stream)[1], Head(stream)[2])
                 ELSE LeastkStep(st.heap, k_stocks, Head(stream)[1], Head(stream)[2]))

\* what the ranking call under way returns on the table with its columns in
\* the order p
RankedWithColumns(p) ==
    LET st == ScanAll(rcall.op, TotalReturns(PermuteColumns(returns_df, p), rcall.n_days),
                      rcall.k_stocks, [raised |-> "none", heap |-> <<>>])
    IN  IF rcall.op = "topk_stocks" THEN TopkResult(st.heap) ELSE LeastkResult(st.heap)

\* two entries that are in both lists come in the same order in both
SameRelativeOrder(list, other) ==
    \A i, j \in 1..Len(list), a, b \in 1..Len(other) :
        (i < j /\ list[i] = other[a] /\ list[j] = other[b]) => a < b

\* the matrix and the tickers of the graph taken in the order p
PermuteTickers(p) == [i \in 1..Len(ordered_tickers) |-> ordered_tickers[p[i]]]
PermuteMatrix(p) ==
    [i \in 1..Len(ordered_tickers) |->
        [j \in 1..Len(ordered_tickers) |-> correlation_matrix[p[i]][p[j]]]]

LastClose(n) ==
    IF \E i \in 1..n : mcalls[i].op = "close"
    THEN CHOOSE i \in 1..n :
            /\ mcalls[i].op = "close"
            /\ \A j \in (i + 1)..n : mcalls[j].op # "close"
    ELSE 0

\* get_connection is among the first n calls, after the last close
CalledSinceClose(n) ==
    \E i \in (LastClose(n) + 1)..n : mcalls[i].op = "get_connection"

\* get_connection has returned among the first n calls, after the last close
ReturnedSinceClose(n) ==
    \E i \in (LastClose(n) + 1)..n :
        mcalls[i].op = "get_connection" /\ mcalls[i].raised = "none"

OpenConnections == {i \in 1..Len(connections) : connections[i].open}

\* the parts of the lifecycle that do not depend on how is_connected is
\* described: at most one open connection; get_connection calls with no close
\* between them return the same object; close with nothing open changes
\* nothing; set_db_path changes _db_path alone; a connection keeps its path,
\* and stays open until close is called
ManagerSteps ==
    /\ mcalls' # mcalls => Len(mcalls') = Len(mcalls) + 1
    /\ (mcalls' # mcalls /\ mcalls'[Len(mcalls')].op = "close" /\ _connection = 0)
            => UNCHANGED <<_db_path, _connection, connections>>
    /\ (mcalls' # mcalls /\ mcalls'[Len(mcalls')].op = "set_db_path")
            => /\ UNCHANGED <<_connection, connections>>
               /\ _db_path' = mcalls'[Len(mcalls')].arg
    /\ \A i \in 1..Len(connections) :
            /\ i <= Len(connections')
            /\ connections'[i].path = connections[i].path
            /\ ~connections[i].open => ~connections'[i].open
            /\ (connections[i].open /\ ~connections'[i].open)
                    => mcalls'[Len(mcalls')].op = "close"
    /\ \A i \in (Len(connections) + 1)..Len(connections') :
            /\ mcalls'[Len(mcalls')].op = "get_connection"
            /\ connections'[i].path = _db_path

ManagerState ==
    /\ Cardinality(OpenConnections) <= 1
    /\ \A i, j \in 1..Len(mcalls) :
            (/\ i < j
             /\ mcalls[i].op = "get_connection" /\ mcalls[i].raised = "none"
             /\ mcalls[j].op = "get_connection" /\ mcalls[j].raised = "none"
             /\ \A m \in i..j : mcalls[m].op # "close")
                => mcalls[i].value = mcalls[j].value

\* C26, as claimed: over any sequence of calls, at most one connection is
\* open; is_connected() is true exactly when get_connection has been called
\* since the last close (or since start); get_connection calls with no close
\* between them return the same connection; close with nothing open is a
\* no-op; set_db_path changes only the path of the next connection creation,
\* an open connection keeping its path until close is called.
C26_ConnectedWhenCalled ==
    /\ [][ManagerSteps]_vars
    /\ [](ManagerState)
    /\ []((_connection # 0) <=> CalledSinceClose(Len(mcalls)))
    /\ [](\A n \in 1..Len(mcalls) :
            mcalls[n].op = "is_connected" =>
                (mcalls[n].value <=> CalledSinceClose(n - 1)))

\* C26, amended: the same, is_connected() being true exactly when a
\* get_connection call has returned a connection since the last close (or
\* since start); a get_connection call that raises leaves it false.
C26_ConnectedWhenReturned ==
    /\ [][ManagerSteps]_vars
    /\ [](ManagerState)
    /\ []((_connection # 0) <=> ReturnedSinceClose(Len(mcalls)))
    /\ [](\A n \in 1..Len(mcalls) :
            mcalls[n].op = "is_connected" =>
                (mcalls[n].value <=> ReturnedSinceClose(n - 1)))

\* a second connection was made after a close, at the path set while the
\* first was open, and is_connected has answered since
C26_Witness ==
    /\ Len(connections) = 2
    /\ ~connections[1].open
    /\ connections[2].open
    /\ connections[1].path # connections[2].path
    /\ _connection = 2
    /\ mcalls[Len(mcalls)].op = "is_connected"
    /\ mcalls[Len(mcalls)].value

\* ----------------------------------------------- AssetPricesManager claims
\* the rows update_asset_prices has inserted
InsertedRows == SubSeq(asset_prices.rows, Len(acall.before.rows) + 1,
                       Len(asset_prices.rows))

\* the target date of the call: the argument, or the last date of stock_prices
TargetOfCall ==
    IF acall.target_date = NoDate THEN MaxOf({r[1] : r \in stock_prices})
    ELSE acall.target_date

\* C27: update_asset_prices inserts only rows whose date is strictly greater
\* than the maximum date asset_prices had and at most target_date, so the
\* dates of asset_prices stay unique and the maximum date never decreases; it
\* leaves the table unchanged when the table does not exist, when it is
\* empty, when the last date is already >= target_date, or when stock_prices
\* has no date after the last date and up to target_date; and the second of
\* two calls in a row with the same target_date inserts nothing.
C27_UpdateInsertsOnlyNewDates ==
    acall.op = "update_asset_prices" =>
        LET last == GetLastUpdateDate(acall.before)
        IN  /\ asset_prices.exists = acall.before.exists
            /\ Len(asset_prices.rows) >= Len(acall.before.rows)
            /\ SubSeq(asset_prices.rows, 1, Len(acall.before.rows)) = acall.before.rows
            /\ \A i \in 1..Len(InsertedRows) :
                    /\ InsertedRows[i].date > last
                    /\ InsertedRows[i].date <= TargetOfCall
            /\ \A i, j \in 1..Len(asset_prices.rows) :
                    i # j => asset_prices.rows[i].date # asset_prices.rows[j].date
            /\ GetLastUpdateDate(asset_prices) >= last
            /\ (\/ ~acall.before.exists
                \/ acall.before.rows = <<>>
                \/ (TargetOfCall # NoDate /\ last >= TargetOfCall)
                \/ ~\E r \in stock_prices : r[1] > last /\ r[1] <= TargetOfCall)
                    => asset_prices = acall.before
            /\ (/\ acall.earlier.op = "update_asset_prices"
                /\ acall.earlier.target_date = acall.target_date)
                    => asset_prices = acall.before

\* the first of two calls with the same target_date has inserted a row and
\* left a later date of stock_prices out; the second has inserted nothing
C27_Witness ==
    /\ acall.op = "update_asset_prices"
    /\ acall.earlier.op = "update_asset_prices"
    /\ acall.earlier.target_date = acall.target_date
    /\ Len(acall.before.rows) > acall.earlier.rows
    /\ acall.raised = "none"
    /\ asset_prices = acall.before
    /\ \E r \in stock_prices :
            /\ r[1] > GetLastUpdateDate(asset_prices)
            /\ r[1] <= TargetOfCall

\* ------------------------------------------------------ performance claims
\* C28: analyze_multiple_periods never raises the insufficient-data error;
\* its result has exactly one key per requested period, mapped to None when
\* the period exceeds the number of rows of returns_df or the ticker is no
\* column, else to the sum of the ticker's last `period` returns.
\* get_stock_performance called directly raises the insufficient-data error
\* when n_days exceeds the number of rows, even for a ticker that is no
\* column, and returns None for such a ticker only when the window is valid.
C28_MultiplePeriodsNeverRaises ==
    /\ ccall.op = "analyze_multiple_periods" =>
            /\ cret.raised = "none"
            /\ DOMAIN cret.value = Range(ccall.periods)
            /\ \A period \in Range(ccall.periods) :
                    IF \/ period > Len(returns_df.rows)
                       \/ ccall.ticker \notin Range(returns_df.columns)
                    THEN cret.value[period] = None
                    ELSE /\ ~cret.value[period].is_none
                         /\ cret.value[period].total =
                                ColumnSum(TailRows(returns_df.rows, period),
                                          IndexOf(returns_df.columns, ccall.ticker))
    /\ ccall.op = "get_stock_performance" =>
            /\ ccall.n_days > Len(returns_df.rows) => cret.raised = "ValueError"
            /\ (cret.raised = "none" /\ cret.value.is_none) <=>
                    /\ ccall.n_days <= Len(returns_df.rows)
                    /\ ccall.ticker \notin Range(returns_df.columns)

\* analyze_multiple_periods has returned None for a period beyond the rows
\* of returns_df and a sum for a period within them
C28_Witness ==
    /\ ccall.op = "analyze_multiple_periods"
    /\ cret.raised = "none"
    /\ \E p, q \in DOMAIN cret.value :
            /\ p > Len(returns_df.rows)
            /\ cret.value[p] = None
            /\ q >= 1
            /\ ~cret.value[q].is_none
            /\ cret.value[q].total # 0

====
